---- MODULE Spec2Model ----
(***************************************************************************)
(* Model of the rs-mod-derives procedural macros.                          *)
(*                                                                         *)
(* The PostgreSQL derive (postgresql_derive/src/lib.rs) reads an entity    *)
(* declaration and emits naming tables, row parsers and an update()        *)
(* method.  The model has two layers:                                      *)
(*   - generation: the declaration `ast` and the emitted items `gen`;      *)
(*   - run time: an entity instance `self`, the statement built by         *)
(*     update(), the values bound to it and the outcome of the call; the   *)
(*     result and relational wrappers; the accessors of the instance.      *)
(* Strings are TLA+ strings; a character is a string of length one.        *)
(***************************************************************************)
EXTENDS Integers, Sequences, FiniteSets, TLC

VARIABLES
    ast,     \* the entity declaration handed to the derive
    gen,     \* what derive() emitted for it (status "none" before it ran)
    self,    \* the entity instance at run time: field ident -> Null<T>
    pc,      \* "declared", "aborted" (derive panicked), "idle", "awaiting" (update in flight)
    call,    \* the current or last run-time call: a parse (parser, row) or an
             \* update() (statement, binds, outcome of the execution, result)
    execs,   \* number of statement executions issued on the writer connection
    calls    \* number of update() calls started

vars == <<ast, gen, self, pc, call, execs, calls>>

(***************************************************************************)
(* Bounds of the model.                                                    *)
(***************************************************************************)
MaxFields == 3      \* fields per declared entity
MaxCalls == 1       \* update() calls per run
MaxAccessFields == 2    \* fields of an entity whose accessors are run

None == [tag |-> "None"]
Some(v) == [tag |-> "Some", v |-> v]

(***************************************************************************)
(* Strings.                                                                *)
(***************************************************************************)
Char(s, i) == SubSeq(s, i, i)

LowerChars == "abcdefghijklmnopqrstuvwxyz"
UpperChars == "ABCDEFGHIJKLMNOPQRSTUVWXYZ"
DigitChars == "0123456789"

CharsOf(s) == {Char(s, i) : i \in 1..Len(s)}
LowerSet == CharsOf(LowerChars)
UpperSet == CharsOf(UpperChars)
DigitSet == CharsOf(DigitChars)
IsAlnum(c) == c \in LowerSet \cup UpperSet \cup DigitSet

\* A value the model leaves open: the result of a library call on a text
\* outside the texts the model describes.  No value is chosen, so nothing is
\* derived from it.
Unspecified(s) == CHOOSE b \in BOOLEAN : b # b /\ s = s

\* char::is_whitespace on U+0000..U+00FF: U+0009..U+000D, U+0020, U+0085 and
\* U+00A0
WhiteSpace == CharsOf(" \t\n\r\f ")

\* the letters of U+00C0..U+00FE that come in pairs, capital and small
Latin1Upper == "ÀÁÂÃÄÅÆÇÈÉÊËÌÍÎÏÐÑÒÓÔÕÖØÙÚÛÜÝÞ"
Latin1Lower == "àáâãäåæçèéêëìíîïðñòóôõöøùúûüýþ"

\* The characters the string operators are described on: those of
\* U+0000..U+00FF that are white space, ASCII letters, digits and punctuation,
\* and the letters and signs of U+00A1..U+00FF.
Described ==
    LowerSet \cup UpperSet \cup DigitSet \cup WhiteSpace
        \cup CharsOf("!\"#$%&'()*+,-./:;<=>?@[\\]^_{|}~")
        \cup CharsOf(Latin1Upper) \cup CharsOf(Latin1Lower)
        \cup CharsOf("¡¢£¤¥¦§¨©ª«¬®¯°±²³´µ¶·¸¹º»¼½¾¿×÷ßÿ")

\* char::to_lowercase of a capital letter
LowerOf ==
    [c \in UpperSet \cup CharsOf(Latin1Upper) |->
        IF c \in UpperSet
        THEN Char(LowerChars, CHOOSE i \in 1..Len(UpperChars) : Char(UpperChars, i) = c)
        ELSE Char(Latin1Lower, CHOOSE i \in 1..Len(Latin1Upper) : Char(Latin1Upper, i) = c)]

\* char::to_uppercase of a small letter; the sharp s becomes two letters and
\* the micro sign the Greek capital mu
UpperOf ==
    [c \in LowerSet \cup CharsOf(Latin1Lower) \cup {"ß", "µ"} |->
        IF c \in LowerSet
        THEN Char(UpperChars, CHOOSE i \in 1..Len(LowerChars) : Char(LowerChars, i) = c)
        ELSE IF c = "ß" THEN "SS"
        ELSE IF c = "µ" THEN "Μ"
        ELSE Char(Latin1Upper, CHOOSE i \in 1..Len(Latin1Lower) : Char(Latin1Lower, i) = c)]

ToLowerChar(c) ==
    IF c \in DOMAIN LowerOf THEN LowerOf[c]
    ELSE IF c \in Described THEN c
    ELSE Unspecified(c)

\* the capital of U+00FF lies outside the characters a text can hold here
ToUpperChar(c) ==
    IF c \in DOMAIN UpperOf THEN UpperOf[c]
    ELSE IF c \in Described /\ c # "ÿ" THEN c
    ELSE Unspecified(c)

\* str::to_lowercase
RECURSIVE to_lowercase(_)
to_lowercase(s) ==
    IF s = "" THEN "" ELSE ToLowerChar(Char(s, 1)) \o to_lowercase(Tail(s))

\* str::to_uppercase
RECURSIVE to_uppercase(_)
to_uppercase(s) ==
    IF s = "" THEN "" ELSE ToUpperChar(Char(s, 1)) \o to_uppercase(Tail(s))

StartsWith(s, p) == Len(s) >= Len(p) /\ SubSeq(s, 1, Len(p)) = p

\* str::replace: every non-overlapping occurrence of pat, left to right.
RECURSIVE replace(_, _, _)
replace(s, pat, rep) ==
    IF s = "" THEN ""
    ELSE IF StartsWith(s, pat)
         THEN rep \o replace(SubSeq(s, Len(pat) + 1, Len(s)), pat, rep)
         ELSE Char(s, 1) \o replace(Tail(s), pat, rep)

\* Index of the first occurrence of pat in s, 0 when there is none.
RECURSIVE FindFrom(_, _, _)
FindFrom(s, pat, i) ==
    IF i + Len(pat) - 1 > Len(s) THEN 0
    ELSE IF SubSeq(s, i, i + Len(pat) - 1) = pat THEN i
    ELSE FindFrom(s, pat, i + 1)

Find(s, pat) == FindFrom(s, pat, 1)

\* str::split on a separator: "" gives <<"">>, "a;" gives <<"a", "">>.
RECURSIVE split(_, _)
split(s, sep) ==
    LET i == Find(s, sep) IN
    IF i = 0 THEN <<s>>
    ELSE <<SubSeq(s, 1, i - 1)>> \o split(SubSeq(s, i + Len(sep), Len(s)), sep)

\* [String]::join
RECURSIVE join(_, _)
join(v, sep) ==
    IF Len(v) = 0 THEN ""
    ELSE IF Len(v) = 1 THEN v[1]
    ELSE v[1] \o sep \o join(Tail(v), sep)

\* Display of an unsigned integer.
RECURSIVE to_string(_)
to_string(n) ==
    IF n < 10 THEN Char(DigitChars, n + 1)
    ELSE to_string(n \div 10) \o Char(DigitChars, (n % 10) + 1)

\* format!(template, arg) for a template with one "{}" hole.
format1(template, arg) ==
    LET i == Find(template, "{}") IN
    SubSeq(template, 1, i - 1) \o arg \o SubSeq(template, i + 2, Len(template))

MapSeq(Op(_), s) == [i \in 1..Len(s) |-> Op(s[i])]

\* change_case::snake_case: a word boundary between a lower-case letter or digit
\* and an upper-case letter, and between an upper-case run and an upper-case
\* letter that starts a lower-case word; every run of other characters is one
\* boundary; boundaries at the ends are dropped; words are joined by "_".
RECURSIVE SnakeFrom(_, _, _)
SnakeFrom(s, i, out) ==
    IF i > Len(s)
    THEN IF out # "" /\ Char(out, Len(out)) = "_" THEN SubSeq(out, 1, Len(out) - 1) ELSE out
    ELSE LET c    == Char(s, i)
             prev == IF i > 1 THEN Char(s, i - 1) ELSE ""
             next == IF i < Len(s) THEN Char(s, i + 1) ELSE ""
             open == out = "" \/ Char(out, Len(out)) = "_"
             cut  == /\ c \in UpperSet
                     /\ \/ prev \in LowerSet \cup DigitSet
                        \/ prev \in UpperSet /\ next \in LowerSet
         IN  IF ~IsAlnum(c)
             THEN SnakeFrom(s, i + 1, IF open THEN out ELSE out \o "_")
             ELSE SnakeFrom(s, i + 1, (IF cut /\ ~open THEN out \o "_" ELSE out) \o c)

snake_case(s) == SnakeFrom(s, 1, "")

derive_snake_case(name) == to_lowercase(snake_case(name))

\* format_ident!("{}", s): Ident::new accepts a non-empty word of letters,
\* digits and '_' that does not start with a digit; after the prefix r# the
\* word is made a raw identifier, which `_`, self, Self, super and crate cannot
\* be; inside a macro expansion Ident::new accepts the text $crate as well.
\* False is the panic.
IsIdent(s) ==
    LET punctuation == CharsOf(" !\"#$%&'()*+,-./:;<=>?@[\\]^_{|}~")
        raw  == Len(s) >= 2 /\ SubSeq(s, 1, 2) = "r#"
        word == IF raw THEN SubSeq(s, 3, Len(s)) ELSE s
    IN  IF \E i \in 1..Len(s) : ~IsAlnum(Char(s, i)) /\ Char(s, i) \notin punctuation
        THEN Unspecified(s)
        ELSE \/ s = "$crate"
             \/ /\ word # ""
                /\ \A i \in 1..Len(word) : IsAlnum(Char(word, i)) \/ Char(word, i) = "_"
                /\ Char(word, 1) \notin DigitSet
                /\ raw => word \notin {"_", "self", "Self", "super", "crate"}

(***************************************************************************)
(* The declaration: syn::DeriveInput as the derive reads it.               *)
(*   ident   the entity name                                               *)
(*   table   the #[table(...)] attribute: alias and rename, each optional  *)
(*   fields  the named fields in declaration order, each with its ident,   *)
(*           its declared type as rendered text and its attributes         *)
(*           (path and argument text)                                      *)
(***************************************************************************)
column == "column"

ColumnAttr(args) == [path |-> column, args |-> args]

\* deluxe::extract_attributes::<ColumnAttrs>: ColumnAttrs declares no members,
\* so an attribute #[column(...)] that carries arguments is rejected.
extract_attributes(f) ==
    \A j \in 1..Len(f.attrs) : f.attrs[j].path = column => f.attrs[j].args = ""

\* Variant of derive_is_attributed_field that does not compare the identifier.
derive_is_attributed_field_any(a, field, name) ==
    \E i \in 1..Len(a.fields) :
        \E j \in 1..Len(a.fields[i].attrs) : a.fields[i].attrs[j].path = name

derive_is_attributed_field(a, field, name) ==
    \E i \in 1..Len(a.fields) :
        /\ a.fields[i].ident = field
        /\ \E j \in 1..Len(a.fields[i].attrs) : a.fields[i].attrs[j].path = name

derive_type_to_string(ty) == replace(ty, " ", "")

\* Every bracket of s is closed by its own kind, in order; `open` holds the
\* closers still awaited, the innermost first.
RECURSIVE Balanced(_, _, _)
Balanced(s, i, open) ==
    IF i > Len(s) THEN open = ""
    ELSE IF Char(s, i) \in {"<", "(", "["}
         THEN Balanced(s, i + 1,
                       (IF Char(s, i) = "<" THEN ">" ELSE IF Char(s, i) = "(" THEN ")" ELSE "]")
                           \o open)
    ELSE IF Char(s, i) \in {">", ")", "]"}
         THEN /\ open # ""
              /\ Char(open, 1) = Char(s, i)
              /\ Balanced(s, i + 1, SubSeq(open, 2, Len(open)))
    ELSE Balanced(s, i + 1, open)

\* The pieces of s between the separators that stand outside every bracket;
\* the "::" of a turbofish ("::<") separates nothing.
RECURSIVE TopLevelPieces(_, _, _, _, _)
TopLevelPieces(s, sep, i, depth, start) ==
    IF i > Len(s) THEN <<SubSeq(s, start, Len(s))>>
    ELSE IF Char(s, i) \in {"<", "(", "["}
         THEN TopLevelPieces(s, sep, i + 1, depth + 1, start)
    ELSE IF Char(s, i) \in {">", ")", "]"}
         THEN TopLevelPieces(s, sep, i + 1, depth - 1, start)
    ELSE IF /\ depth = 0
            /\ i + Len(sep) - 1 <= Len(s)
            /\ SubSeq(s, i, i + Len(sep) - 1) = sep
            /\ ~(sep = "::" /\ i + 2 <= Len(s) /\ Char(s, i + 2) = "<")
         THEN <<SubSeq(s, start, i - 1)>>
                  \o TopLevelPieces(s, sep, i + Len(sep), 0, i + Len(sep))
    ELSE TopLevelPieces(s, sep, i + 1, depth, start)

\* the words of s: its longest runs of letters, digits and '_'
RECURSIVE WordsOf(_, _, _)
WordsOf(s, i, start) ==
    LET InWord(k) == IsAlnum(Char(s, k)) \/ Char(s, k) = "_" IN
    IF i > Len(s)
    THEN IF start <= Len(s) THEN {SubSeq(s, start, Len(s))} ELSE {}
    ELSE IF InWord(i) THEN WordsOf(s, i + 1, start)
    ELSE (IF start < i THEN {SubSeq(s, start, i - 1)} ELSE {}) \cup WordsOf(s, i + 1, i + 1)

\* the words whose meaning for syn depends on where they stand
ReservedWords ==
    { "abstract", "as", "async", "await", "become", "box", "break", "const",
      "continue", "crate", "do", "dyn", "else", "enum", "extern", "false", "final",
      "fn", "for", "if", "impl", "in", "let", "loop", "macro", "match", "mod",
      "move", "mut", "override", "priv", "pub", "ref", "return", "Self", "self",
      "static", "struct", "super", "trait", "true", "try", "type", "typeof",
      "union", "unsafe", "unsized", "use", "virtual", "where", "while", "yield" }

\* The type texts the model decides: names, `_` and whole numbers, joined by
\* "::", ',', '&' and the brackets <>, (), []; no reserved word; a '<' stands
\* after a name or a "::", a '(' or '[' opens a type (it does not follow a
\* name).  Function types, arrays with a length, bindings, lifetimes, braces,
\* literals, macros and qualified paths are outside.
IsPlainTypeText(s) ==
    /\ \A i \in 1..Len(s) :
          \/ IsAlnum(Char(s, i))
          \/ Char(s, i) \in {"_", "<", ">", ",", ":", "(", ")", "&", "[", "]"}
    /\ Find(replace(s, "::", ""), ":") = 0
    /\ \A w \in WordsOf(s, 1, 1) :
          \/ w = "_"
          \/ \A k \in 1..Len(w) : Char(w, k) \in DigitSet
          \/ Char(w, 1) \notin DigitSet /\ w \notin ReservedWords
    /\ \A i \in 1..Len(s) :
          /\ Char(s, i) = "<" =>
                i > 1 /\ (IsAlnum(Char(s, i - 1)) \/ Char(s, i - 1) \in {"_", ":"})
          /\ Char(s, i) \in {"(", "["} =>
                (i = 1 \/ Char(s, i - 1) \in {"<", ",", "(", "&", "["})

\* syn::parse_str::<Type> succeeds on the text.  Decided for the plain type
\* texts: `_`, a reference, a tuple or a parenthesised type, a slice, and a
\* path whose segments may carry generic arguments (types and whole numbers;
\* the list may be empty or end in a comma).
RECURSIVE parse_str(_)
parse_str(s) ==
    LET inner == SubSeq(s, 2, Len(s) - 1)
        \* a comma-separated list of types, empty or ending in a comma
        Types(list) ==
            \/ list = ""
            \/ LET ps == TopLevelPieces(list, ",", 1, 0, 1) IN
               \A n \in 1..Len(ps) :
                  \/ parse_str(ps[n])
                  \/ n = Len(ps) /\ n > 1 /\ ps[n] = ""
        \* the generic arguments of a path segment
        Args(list) ==
            \/ list = ""
            \/ LET ps == TopLevelPieces(list, ",", 1, 0, 1) IN
               \A n \in 1..Len(ps) :
                  \/ parse_str(ps[n])
                  \/ ps[n] # "" /\ \A k \in 1..Len(ps[n]) : Char(ps[n], k) \in DigitSet
                  \/ n = Len(ps) /\ n > 1 /\ ps[n] = ""
        Name(w) ==
            /\ w # "" /\ w # "_"
            /\ \A k \in 1..Len(w) : IsAlnum(Char(w, k)) \/ Char(w, k) = "_"
            /\ Char(w, 1) \notin DigitSet
        Segment(seg) ==
            LET i == Find(seg, "<") IN
            IF i = 0 THEN Name(seg)
            ELSE LET before == SubSeq(seg, 1, i - 1)
                     name   == IF Len(before) > 2 /\ SubSeq(before, Len(before) - 1, Len(before)) = "::"
                               THEN SubSeq(before, 1, Len(before) - 2)
                               ELSE before
                 IN  /\ Name(name)
                     /\ Char(seg, Len(seg)) = ">"
                     /\ Balanced(SubSeq(seg, i + 1, Len(seg) - 1), 1, "")
                     /\ Args(SubSeq(seg, i + 1, Len(seg) - 1))
        Path(path) ==
            LET body == IF Len(path) > 2 /\ SubSeq(path, 1, 2) = "::"
                        THEN SubSeq(path, 3, Len(path)) ELSE path
                segs == TopLevelPieces(body, "::", 1, 0, 1)
            IN  \A n \in 1..Len(segs) : Segment(segs[n])
    IN
    IF ~IsPlainTypeText(s) THEN Unspecified(s)
    ELSE IF s = "" \/ ~Balanced(s, 1, "") THEN FALSE
    ELSE IF s = "_" THEN TRUE
    ELSE IF Char(s, 1) = "&" THEN parse_str(SubSeq(s, 2, Len(s)))
    ELSE IF Char(s, 1) = "("
         THEN Char(s, Len(s)) = ")" /\ Balanced(inner, 1, "") /\ Types(inner)
    ELSE IF Char(s, 1) = "["
         THEN Char(s, Len(s)) = "]" /\ Balanced(inner, 1, "") /\ parse_str(inner)
    ELSE Path(s)

\* panic!("Invalid type string")
InvalidTypeString == "Invalid type string"

\* Regex ^[^<]*<(.+)>$ captures the text between the first '<' and the closing
\* '>'; a capture that is no type, and a text without capture that is no type,
\* end in the panic.
derive_parse_inner_type(ty) ==
    LET input    == derive_type_to_string(ty)
        i        == Find(input, "<")
        captured == SubSeq(input, i + 1, Len(input) - 1)
    IN  IF i > 0 /\ Len(input) >= i + 2 /\ Char(input, Len(input)) = ">"
        THEN IF parse_str(captured) THEN captured ELSE InvalidTypeString
        ELSE IF parse_str(input) THEN input
        ELSE InvalidTypeString

\* Variant of derive_all_fields that leaves out a field whose attributes are
\* not extracted.
derive_all_fields_skipping(a, name) ==
    LET Extracted(f) == extract_attributes(f)
        kept == SelectSeq(a.fields, Extracted)
    IN  [i \in 1..Len(kept) |->
            [field         |-> kept[i].ident,
             ty            |-> kept[i].ty,
             is_attributed |-> derive_is_attributed_field(a, kept[i].ident, name)]]

derive_all_fields(a, name) ==
    [i \in 1..Len(a.fields) |->
        LET f == a.fields[i] IN
        [field         |-> f.ident,
         ty            |-> f.ty,
         is_attributed |-> IF extract_attributes(f)
                           THEN derive_is_attributed_field(a, f.ident, name)
                           ELSE FALSE]]

\* Variant of derive_struct_attrs that keeps what the attribute declares when
\* its extraction fails.
derive_struct_attrs_keeping(a) == [alias |-> a.table.alias, rename |-> a.table.rename]

\* deluxe::extract_attributes::<TableAttrs> fails on an argument other than
\* alias and rename; TableAttrs::default() has neither.
derive_struct_attrs(a) ==
    IF a.table.other = <<>>
    THEN [alias |-> a.table.alias, rename |-> a.table.rename]
    ELSE [alias |-> None, rename |-> None]

(***************************************************************************)
(* derive(): the locals of the function.                                   *)
(***************************************************************************)
\* the declared types of the fields the model declares, as quote renders them
TypePool ==
    { "Null<String>", "Null<i64>", "Null<Vec<String>>",
      "Null < String >", "String", "Null < Vec < String > >",
      "HashMap < String , i64 >", "Null < HashMap < String , i64 > >",
      "Null < std :: string :: String >", "Null < (i32 , String) >" }

\* let inner_ty = derive_utils::derive_parse_inner_type(&ty), tabulated over the pool
InnerTypes == [ty \in TypePool |-> derive_parse_inner_type(ty)]

table_name(a) ==
    LET table_attrs == derive_struct_attrs(a) IN
    derive_snake_case(IF table_attrs.rename.tag = "Some"
                      THEN table_attrs.rename.v
                      ELSE a.ident)

aliases(a) ==
    LET table_attrs == derive_struct_attrs(a) IN
    IF table_attrs.alias.tag = "Some"
    THEN split(to_lowercase(replace(replace(table_attrs.alias.v, " ", ""), ",", ";")), ";")
    ELSE <<>>

error(table) == "No matching record(s) found in " \o table \o " table"

Project(s, key) == [i \in 1..Len(s) |-> s[i][key]]

\* Variant of IsUpdateField without the identifier test.
IsUpdateFieldAnyAttributed(d) == d.is_attributed

IsUpdateField(d) == d.field # "id" /\ d.is_attributed

UpdateColumn(d) == d.field \o " = ${}"

\* all_update_fields and all_update_columns after the loop over `fields`
all_update_fields(fields) == Project(SelectSeq(fields, IsUpdateField), "field")

all_update_columns(fields) == MapSeq(UpdateColumn, SelectSeq(fields, IsUpdateField))

IsAttributed(d) == d.is_attributed

\* Variant of ColumnNames that takes the field identifier unconverted.
ColumnNamesUnconverted(table, d) ==
    LET plain   == d.field
        renamed == table \o "_" \o plain
        tabled  == table \o "." \o plain
    IN  [field      |-> d.field,
         inner_ty   |-> derive_parse_inner_type(d.ty),
         plain      |-> plain,
         renamed    |-> renamed,
         tabled     |-> tabled,
         aliased    |-> tabled \o " AS " \o renamed,
         const_name |-> to_uppercase(plain)]

\* What the `if is_attributed` block computes for one field of table `table`.
ColumnNames(table, d) ==
    LET plain   == derive_snake_case(d.field)
        renamed == table \o "_" \o plain
        tabled  == table \o "." \o plain
    IN  [field      |-> d.field,
         inner_ty   |-> InnerTypes[d.ty],
         plain      |-> plain,
         renamed    |-> renamed,
         tabled     |-> tabled,
         aliased    |-> tabled \o " AS " \o renamed,
         const_name |-> to_uppercase(plain)]

\* One record per attributed field, in declaration order; its members are the
\* entries pushed to all_attributed_fields, all_attributed_inner_ty,
\* all_attributed_renamed, all_const_names, all_aliased, all_plain,
\* all_renamed and all_tabled.
Attributed(table, fields) ==
    LET sel == SelectSeq(fields, IsAttributed) IN
    [i \in 1..Len(sel) |-> ColumnNames(table, sel[i])]

\* One push of the inner loop `for a in aliases.clone()`.
SubEntry(att, al) ==
    LET aliased_renamed == al \o "_" \o att.plain IN
    [aliased_parser  |-> "parse_" \o al,
     field           |-> att.field,
     inner_ty        |-> att.inner_ty,
     aliased_renamed |-> aliased_renamed,
     sub_aliased     |-> att.tabled \o " AS " \o aliased_renamed]

\* All pushes in the order they happen: for each attributed field, for each
\* entry of the alias list.
SubEntries(att, al) ==
    [n \in 1..(Len(att) * Len(al)) |->
        SubEntry(att[((n - 1) \div Len(al)) + 1], al[((n - 1) % Len(al)) + 1])]

SubKeys(entries) == {entries[n].aliased_parser : n \in 1..Len(entries)}

\* map_sub_parser.entry(k): the (field, inner type, column key) tuples pushed under k
map_sub_parser(entries, k) ==
    LET OfKey(e) == e.aliased_parser = k
        Tuple(e) == [field |-> e.field, inner_ty |-> e.inner_ty, column |-> e.aliased_renamed]
    IN  MapSeq(Tuple, SelectSeq(entries, OfKey))

\* map_sub_alias.entry(k): the select expressions pushed under k
map_sub_alias(entries, k) ==
    LET OfKey(e) == e.aliased_parser = k
    IN  Project(SelectSeq(entries, OfKey), "sub_aliased")

(***************************************************************************)
(* derive(): the emitted items.                                            *)
(***************************************************************************)
Min(x, y) == IF x <= y THEN x ELSE y

\* quote's repetition #( ... #a ... #b ... )* steps its iterators together and
\* stops with the first one that is exhausted.
Repeat2(names, values) ==
    [i \in 1..Min(Len(names), Len(values)) |-> [name |-> names[i], value |-> values[i]]]

\* pub mod plain / renamed / tabled / alias { ALL, one constant per field }
NamingModule(all_const_names, values) ==
    [ALL |-> join(values, ", "), consts |-> Repeat2(all_const_names, values)]

ModuleIdent(k) == replace(k, "parse_", "")

\* pub mod <alias> { ALL, one constant per #all_const_names / #v pair }
SubAliasModule(all_const_names, k, v) ==
    [module |-> ModuleIdent(k),
     ALL    |-> join(v, ", "),
     consts |-> Repeat2(all_const_names, v)]

\* pub fn parse_<alias>(row) and pub mod <alias> { parse, result, relational }
SubParser(k, v) ==
    [name    |-> k,
     module  |-> ModuleIdent(k),
     assigns |-> v]

\* Variant of BaseAssigns keyed by the table-qualified column names.
BaseAssignsTabled(att) ==
    [i \in 1..Len(att) |->
        [field |-> att[i].field, inner_ty |-> att[i].inner_ty, column |-> att[i].tabled]]

\* Self::parse: #all_attributed_fields, #all_attributed_inner_ty and
\* #all_attributed_renamed stepped together.
BaseAssigns(att) ==
    [i \in 1..Len(att) |->
        [field |-> att[i].field, inner_ty |-> att[i].inner_ty, column |-> att[i].renamed]]

\* format_ident! panics on a word that is no identifier; main() unwraps.
Panics(keys) ==
    \E k \in keys : ~IsIdent(k) \/ ~IsIdent(ModuleIdent(k))

\* The orders in which a HashMap with these keys can be iterated.
Orders(S) ==
    {o \in [1..Cardinality(S) -> S] : \A k \in S : \E i \in 1..Cardinality(S) : o[i] = k}

DeclKeys(a) ==
    SubKeys(SubEntries(Attributed(table_name(a), derive_all_fields(a, column)), aliases(a)))

Generated(a, alias_order, parser_order) ==
    LET table   == table_name(a)
        fields  == derive_all_fields(a, column)
        att     == Attributed(table, fields)
        entries == SubEntries(att, aliases(a))
        names   == Project(att, "const_name")
    IN
    IF \/ \E i \in 1..Len(fields) : InnerTypes[fields[i].ty] = InvalidTypeString
       \/ Panics(SubKeys(entries))
    THEN [status |-> "panic"]
    ELSE
    [status             |-> "ok",
     table_name         |-> table,
     aliases            |-> aliases(a),
     error              |-> error(table),
     alias              |-> NamingModule(names, Project(att, "aliased")),
     sub_alias          |-> [i \in 1..Len(alias_order) |->
                                SubAliasModule(names, alias_order[i],
                                               map_sub_alias(entries, alias_order[i]))],
     plain              |-> NamingModule(names, Project(att, "plain")),
     renamed            |-> NamingModule(names, Project(att, "renamed")),
     tabled             |-> NamingModule(names, Project(att, "tabled")),
     parse              |-> BaseAssigns(att),
     sub_parsers        |-> [i \in 1..Len(parser_order) |->
                                SubParser(parser_order[i],
                                          map_sub_parser(entries, parser_order[i]))],
     all_update_fields  |-> all_update_fields(fields),
     all_update_columns |-> all_update_columns(fields)]

NotGenerated == [status |-> "none"]

(***************************************************************************)
(* The declarations the model derives from.                                *)
(***************************************************************************)
FieldPool ==
    { [ident |-> "id",        ty |-> "Null<String>"],
      [ident |-> "name",      ty |-> "Null<String>"],
      [ident |-> "email",     ty |-> "Null<String>"],
      [ident |-> "createdAt", ty |-> "Null<i64>"] }

\* no attribute, #[column], and #[column(x)], which ColumnAttrs rejects
AttrPool == { <<>>, <<ColumnAttr("")>>, <<ColumnAttr("x")>> }

IdentPool == { "User", "OrderItem" }

RenamePool == { None, Some("users") }

AliasPool == { None, Some("owner"), Some("Owner, buyer"), Some("owner;owner"), Some("owner;") }

FieldDecls ==
    { [ident |-> p.ident, ty |-> p.ty, attrs |-> at] : p \in FieldPool, at \in AttrPool }

\* Named fields of one struct: pairwise distinct identifiers.
FieldLists ==
    UNION { { fs \in [1..n -> FieldDecls] :
                \A i, j \in 1..n : i # j => fs[i].ident # fs[j].ident } : n \in 1..MaxFields }

Decls ==
    { [ident |-> e, table |-> [alias |-> al, rename |-> rn, other |-> <<>>], fields |-> fs] :
        e \in IdentPool, al \in AliasPool, rn \in RenamePool, fs \in FieldLists }

NoCall == [op |-> "none"]

InitGen ==
    /\ ast \in Decls
    /\ gen = NotGenerated
    /\ self = <<>>
    /\ pc = "declared"
    /\ call = NoCall
    /\ execs = 0
    /\ calls = 0

\* #[proc_macro_derive(PostgreSQL)]: main() runs derive() on the declaration.
Derive ==
    /\ pc = "declared"
    /\ LET keys == DeclKeys(ast) IN
       \E alias_order \in Orders(keys), parser_order \in Orders(keys) :
          gen' = Generated(ast, alias_order, parser_order)
    /\ pc' = IF gen'.status = "panic" THEN "aborted" ELSE "idle"
    /\ UNCHANGED <<ast, self, call, execs, calls>>

NextGen == Derive

SpecGen == InitGen /\ [][NextGen]_vars

(***************************************************************************)
(* Declarations with a table attribute that may not extract and a field    *)
(* of a type other than Null<scalar>.                                      *)
(***************************************************************************)
\* the declared type of the second field, as quote renders it
MetaTypePool ==
    { "String", "Null < String >", "Null < Vec < String > >",
      "HashMap < String , i64 >", "Null < HashMap < String , i64 > >",
      "Null < std :: string :: String >", "Null < (i32 , String) >" }

\* #[table(rename = "...")]: none, a snake_case name, a PascalCase name;
\* #[table(alias = "...")]: none or one name; `other`: the arguments of
\* #[table(...)] besides alias and rename.
TableDecls ==
    { [ident  |-> e,
       table  |-> [alias |-> al, rename |-> rn, other |-> ot],
       fields |-> << [ident |-> "id", ty |-> "Null<String>", attrs |-> <<ColumnAttr("")>>],
                     [ident |-> "meta", ty |-> ty, attrs |-> at] >>] :
        e \in IdentPool, al \in { None, Some("owner") },
        rn \in { None, Some("users"), Some("UserAccounts") },
        ot \in { <<>>, <<"schema">> }, ty \in MetaTypePool, at \in { <<>>, <<ColumnAttr("")>> } }

InitDecl ==
    /\ ast \in TableDecls
    /\ gen = NotGenerated
    /\ self = <<>>
    /\ pc = "declared"
    /\ call = NoCall
    /\ execs = 0
    /\ calls = 0

NextDecl == Derive

SpecDecl == InitDecl /\ [][NextDecl]_vars

(***************************************************************************)
(* Run time: the generated impl of the entity.                             *)
(*                                                                         *)
(* A Null<T> is Undefined, Null or Value(v).  An entity instance maps each *)
(* field identifier to its value.  A row maps column names to cells; a     *)
(* cell carries the type of its value and the value rendered as text.      *)
(***************************************************************************)
undefined == [tag |-> "Undefined"]
new(v) == [tag |-> "Value", v |-> v]

Ok(v) == [tag |-> "Ok", v |-> v]
Err(e) == [tag |-> "Err", e |-> e]

\* ty_to_str.to_lowercase().starts_with("null<"), tabulated over the pool
StartsWithNull ==
    [ty \in TypePool |-> StartsWith(to_lowercase(derive_type_to_string(ty)), "null<")]

IsNullType(ty) == StartsWithNull[ty]

\* a field that is not a Null<..>: its value, rendered as text
plain_value(v) == [tag |-> "Plain", v |-> v]

\* Default::default() of a field of the declared type
DefaultValue(ty) ==
    IF IsNullType(ty) THEN undefined
    ELSE IF derive_type_to_string(ty) = "String" THEN plain_value("")
    ELSE plain_value("0")

FieldIdents(a) == {a.fields[i].ident : i \in 1..Len(a.fields)}

TypeOf(a, field) == (CHOOSE i \in 1..Len(a.fields) : a.fields[i].ident = field)

\* Self::default()
default(a) ==
    [f \in FieldIdents(a) |-> DefaultValue(a.fields[TypeOf(a, f)].ty)]

\* row.try_get::<inner_ty, &str>(column)
try_get(row, inner_ty, col) ==
    IF col \notin DOMAIN row THEN Err("ColumnNotFound")
    ELSE IF row[col].ty # inner_ty THEN Err("ColumnDecode")
    ELSE Ok(row[col].v)

\* nulls::Null::from(Result<T, E>)
NullFrom(res) == IF res.tag = "Ok" THEN new(res.v) ELSE undefined

\* Variant of Assign that gives up at the first column that fails.
RECURSIVE AssignAborting(_, _, _)
AssignAborting(data, assigns, row) ==
    IF assigns = <<>> THEN data
    ELSE LET got == try_get(row, Head(assigns).inner_ty, Head(assigns).column) IN
         IF got.tag = "Err" THEN [f \in DOMAIN data |-> undefined]
         ELSE AssignAborting([data EXCEPT ![Head(assigns).field] = NullFrom(got)],
                             Tail(assigns), row)

\* let mut data = Self::default(); #( data.#fields = Null::from(row.try_get(#column)); )* data
RECURSIVE Assign(_, _, _)
Assign(data, assigns, row) ==
    IF assigns = <<>> THEN data
    ELSE Assign([data EXCEPT ![Head(assigns).field] =
                    NullFrom(try_get(row, Head(assigns).inner_ty, Head(assigns).column))],
                Tail(assigns), row)

\* Self::parse(row) and Self::parse_<alias>(row)
parse(a, assigns, row) == Assign(default(a), assigns, row)

\* Variant of prop that hands out the default of the inner type for a field
\* without a value.
prop_default_when_unset(ty, value) ==
    IF IsNullType(ty)
    THEN IF value.tag = "Value" THEN Some(value.v)
         ELSE IF derive_type_to_string(derive_parse_inner_type(ty)) = "String" THEN Some("")
         ELSE IF derive_type_to_string(derive_parse_inner_type(ty)) = "Vec<String>" THEN Some(<<>>)
         ELSE Some("0")
    ELSE value

\* pub fn #field(&self): Option<inner> for a Null<..> field, the value otherwise
prop(ty, value) ==
    IF IsNullType(ty)
    THEN IF value.tag = "Value" THEN Some(value.v) ELSE None
    ELSE value

Getter(a, s, field) == prop(a.fields[TypeOf(a, field)].ty, s[field])

\* is_empty(): *self == Self::default()
is_empty(a, s) == s = default(a)

\* Null::is_some()
is_some(value) == value.tag = "Value"

\* Null::is_none().  The nulls crate is not part of the repository and the
\* generated code calls is_none() nowhere else, so what it answers for a
\* field without a value is not fixed here: a reading says, for the unset
\* and for the null state, whether is_none() holds.
IsNoneReadings == [{"Undefined", "Null"} -> BOOLEAN]

is_none(reading, value) == ~is_some(value) /\ reading[value.tag]

\* the positions of all_update_fields that pass the guard
\* self.f.is_some() || self.f.is_none() of both loops of update()
UpdateGuarded(g, s, reading) ==
    LET Passes(n) == is_some(s[g.all_update_fields[n]])
                        \/ is_none(reading, s[g.all_update_fields[n]])
    IN  SelectSeq([n \in 1..Min(Len(g.all_update_fields), Len(g.all_update_columns)) |-> n],
                  Passes)

\* The first loop of update(): a field that passes the guard takes the next
\* index and pushes its fragment.
updates(g, s, reading) ==
    LET guarded == UpdateGuarded(g, s, reading) IN
    [index \in 1..Len(guarded) |->
        format1(g.all_update_columns[guarded[index]], to_string(index))]

update_sql(g, s, reading) ==
    LET index == Len(updates(g, s, reading)) + 1 IN
    "\n                    UPDATE " \o g.table_name
        \o " SET " \o join(updates(g, s, reading), ", ")
        \o " WHERE id = $" \o to_string(index)
        \o " RETURNING " \o g.alias.ALL
        \o "\n                "

\* The second loop of update(), under the same guard, and the bind of the
\* identifier.
update_binds(a, g, s, reading) ==
    LET guarded == UpdateGuarded(g, s, reading) IN
    [n \in 1..Len(guarded) |-> Getter(a, s, g.all_update_fields[guarded[n]])]
        \o <<Getter(a, s, "id")>>

\* Variant of result that reports a failed fetch as no matching record.
result_fetch_error_as_not_found(a, g, fetched) ==
    IF fetched.tag = "Err" THEN Err([kind |-> "to", cause |-> g.error])
    ELSE LET row == parse(a, g.parse, fetched.v) IN
         IF ~is_empty(a, row) THEN Ok(row)
         ELSE Err([kind |-> "to", cause |-> g.error])

\* parsers::result(row)
result(a, g, fetched) ==
    IF fetched.tag = "Err" THEN Err([kind |-> "query", cause |-> fetched.e])
    ELSE LET row == parse(a, g.parse, fetched.v) IN
         IF ~is_empty(a, row) THEN Ok(row)
         ELSE Err([kind |-> "to", cause |-> g.error])

\* Variant of sub_result that parses with the base parser.
sub_result_base_parser(a, g, n, fetched) ==
    IF fetched.tag = "Err" THEN Err([kind |-> "query", cause |-> fetched.e])
    ELSE LET row == parse(a, g.parse, fetched.v) IN
         IF ~is_empty(a, row) THEN Ok(row)
         ELSE Err([kind |-> "to", cause |-> g.error])

\* parsers::<alias>::result(row) of the n-th emitted alias parser module
sub_result(a, g, n, fetched) ==
    IF fetched.tag = "Err" THEN Err([kind |-> "query", cause |-> fetched.e])
    ELSE LET row == parse(a, g.sub_parsers[n].assigns, fetched.v) IN
         IF ~is_empty(a, row) THEN Ok(row)
         ELSE Err([kind |-> "to", cause |-> g.error])

\* Variant of relational that wraps every parsed row as present.
relational_always_present(a, g, fetched_row) ==
    new(parse(a, g.parse, fetched_row))

\* parsers::relational(row)
relational(a, g, fetched_row) ==
    LET row == parse(a, g.parse, fetched_row) IN
    IF is_empty(a, row) THEN undefined ELSE new(row)

\* parsers::<alias>::relational(row) of the n-th emitted alias parser module
sub_relational(a, g, n, fetched_row) ==
    LET row == parse(a, g.sub_parsers[n].assigns, fetched_row) IN
    IF is_empty(a, row) THEN undefined ELSE new(row)

(***************************************************************************)
(* Rows the datastore can hand back.                                       *)
(***************************************************************************)
Cells ==
    { [ty |-> "String", v |-> "Ann"],
      [ty |-> "String", v |-> "Bob"],
      [ty |-> "i64",    v |-> "7"] }

\* rows over some of the columns `cols`
Rows(cols) == UNION { [D -> Cells] : D \in SUBSET cols }

\* the name under which the datastore returns a select expression
\* "<column> AS <name>": the text after " AS "
OutputName(expr) == SubSeq(expr, Find(expr, " AS ") + 4, Len(expr))

\* the columns of a row selected with the ALL list of a naming module
Columns(m) ==
    IF m.ALL = "" THEN {}
    ELSE LET exprs == split(m.ALL, ", ") IN {OutputName(exprs[n]) : n \in 1..Len(exprs)}

\* the column sets of the select lists the entity offers: alias::ALL and
\* alias::<alias>::ALL
SelectLists(g) ==
    {Columns(g.alias)} \cup {Columns(g.sub_alias[n]) : n \in 1..Len(g.sub_alias)}

FetchErrors == {"RowNotFound", "Database"}

(***************************************************************************)
(* Run-time actions.                                                       *)
(***************************************************************************)
\* A run follows one call on a fetched row or fetch: a parser, which creates
\* the instance that update() is then called on, or a wrapper.
\* Self::parse(row)
Parse ==
    /\ pc = "idle"
    /\ self = <<>>
    /\ call = NoCall
    /\ \E cols \in SelectLists(gen) : \E row \in Rows(cols) :
          /\ self' = parse(ast, gen.parse, row)
          /\ call' = [op |-> "parse", parser |-> "parse", row |-> row]
    /\ UNCHANGED <<ast, gen, pc, execs, calls>>

\* Self::parse_<alias>(row)
ParseAlias ==
    /\ pc = "idle"
    /\ self = <<>>
    /\ call = NoCall
    /\ \E n \in 1..Len(gen.sub_parsers) :
       \E cols \in SelectLists(gen) : \E row \in Rows(cols) :
          /\ self' = parse(ast, gen.sub_parsers[n].assigns, row)
          /\ call' = [op |-> "parse", parser |-> gen.sub_parsers[n].name, row |-> row]
    /\ UNCHANGED <<ast, gen, pc, execs, calls>>

\* what a fetch hands to a result wrapper: a failure or a row of a select list
Fetches(g) ==
    {Err(e) : e \in FetchErrors}
        \cup UNION {{Ok(row) : row \in Rows(cols)} : cols \in SelectLists(g)}

\* parsers::result(fetch) and parsers::<alias>::result(fetch); n = 0 is the
\* base module
Result ==
    /\ pc = "idle"
    /\ self = <<>>
    /\ call = NoCall
    /\ \E n \in 0..Len(gen.sub_parsers) : \E fetched \in Fetches(gen) :
          call' = [op      |-> "result",
                   parser  |-> IF n = 0 THEN "parse" ELSE gen.sub_parsers[n].name,
                   fetched |-> fetched,
                   result  |-> IF n = 0 THEN result(ast, gen, fetched)
                               ELSE sub_result(ast, gen, n, fetched)]
    /\ UNCHANGED <<ast, gen, self, pc, execs, calls>>

\* parsers::relational(row) and parsers::<alias>::relational(row)
Relational ==
    /\ pc = "idle"
    /\ self = <<>>
    /\ call = NoCall
    /\ \E n \in 0..Len(gen.sub_parsers) :
       \E cols \in SelectLists(gen) : \E row \in Rows(cols) :
          call' = [op     |-> "relational",
                   parser |-> IF n = 0 THEN "parse" ELSE gen.sub_parsers[n].name,
                   row    |-> row,
                   out    |-> IF n = 0 THEN relational(ast, gen, row)
                              ELSE sub_relational(ast, gen, n, row)]
    /\ UNCHANGED <<ast, gen, self, pc, execs, calls>>

\* update(): build the statement, bind, and issue fetch_one on the writer
\* connection; the caller is suspended at the .await.  The call records the
\* answers of is_none() it ran with: they are those of the nulls crate the
\* program is built against, one of IsNoneReadings.
UpdateCall ==
    /\ pc = "idle"
    /\ self # <<>>
    /\ calls < MaxCalls
    /\ \E reading \in IsNoneReadings :
          call' = [op      |-> "update",
                   is_none |-> reading,
                   updates |-> updates(gen, self, reading),
                   sql     |-> update_sql(gen, self, reading),
                   binds   |-> update_binds(ast, gen, self, reading),
                   fetched |-> None,
                   result  |-> None]
    /\ execs' = execs + 1
    /\ calls' = calls + 1
    /\ pc' = "awaiting"
    /\ UNCHANGED <<ast, gen, self>>

\* Variant of UpdateReturn that executes the statement again when it failed.
UpdateReturnRetrying ==
    /\ pc = "awaiting"
    /\ \E fetched \in {Err(e) : e \in FetchErrors} \cup {Ok(row) : row \in Rows(Columns(gen.alias))} :
          IF fetched.tag = "Err" /\ execs < 2 * MaxCalls
          THEN /\ execs' = execs + 1
               /\ UNCHANGED <<call, pc>>
          ELSE /\ call' = [call EXCEPT !.fetched = Some(fetched),
                                       !.result  = Some(result(ast, gen, fetched))]
               /\ pc' = "idle"
               /\ UNCHANGED execs
    /\ UNCHANGED <<ast, gen, self, calls>>

\* the execution completes with a row or a failure; parsers::result wraps it
UpdateReturn ==
    /\ pc = "awaiting"
    /\ \E fetched \in {Err(e) : e \in FetchErrors} \cup {Ok(row) : row \in Rows(Columns(gen.alias))} :
          call' = [call EXCEPT !.fetched = Some(fetched),
                               !.result  = Some(result(ast, gen, fetched))]
    /\ pc' = "idle"
    /\ UNCHANGED <<ast, gen, self, execs, calls>>

\* Declarations whose generated code is run: the User entity of the
\* specification's scenarios with any arrangement of its fields; an `id`
\* field is declared (update() calls self.id()) and no column attribute is
\* malformed.
RunFieldNames == {"id", "name", "email"}

RunDecls ==
    { d \in Decls :
        /\ FieldIdents(d) \subseteq RunFieldNames
        /\ d.ident = "User"
        /\ d.table.rename = Some("users")
        /\ d.table.alias \in {None, Some("owner"), Some("owner;owner")}
        /\ "id" \in FieldIdents(d)
        /\ \A i \in 1..Len(d.fields) : d.fields[i].attrs \in {<<>>, <<ColumnAttr("")>>} }

Init ==
    /\ ast \in RunDecls
    /\ gen = NotGenerated
    /\ self = <<>>
    /\ pc = "declared"
    /\ call = NoCall
    /\ execs = 0
    /\ calls = 0

Next ==
    \/ Derive
    \/ Parse
    \/ ParseAlias
    \/ Result
    \/ Relational
    \/ UpdateCall
    \/ UpdateReturn

Spec == Init /\ [][Next]_vars

(***************************************************************************)
(* Run time: the accessors of the generated impl.                          *)
(*                                                                         *)
(* Every accessor takes the instance by value and returns it.  A value     *)
(* handed to a setter that is generic over ToString is either text or an   *)
(* integer; an identifier generated by the ids crate is a fresh non-empty  *)
(* text of the size class asked for.                                       *)
(***************************************************************************)
\* nulls::Null::Null, the third state of a Null<T>
null == [tag |-> "Null"]

text(s) == [kind |-> "str", s |-> s]
int(n) == [kind |-> "int", n |-> n]

\* ToString::to_string of a value handed to a generic setter
Display(x) ==
    IF x.kind # "int" THEN x.s
    ELSE IF x.n < 0 THEN "-" \o to_string(0 - x.n)
    ELSE to_string(x.n)

\* inner_ty_str, tabulated over the pool
InnerTyStr == [ty \in TypePool |-> derive_type_to_string(InnerTypes[ty])]

InnerTy(a, field) == InnerTyStr[a.fields[TypeOf(a, field)].ty]

\* Variant of set_opts that resets the field when handed None.
set_opts_resetting(s, field, value) ==
    IF value.tag = "Some" THEN [s EXCEPT ![field] = new(value.v)]
    ELSE [s EXCEPT ![field] = undefined]

\* pub fn set_opts_<field>(mut self, value: &Option<inner>) -> Self
set_opts(s, field, value) ==
    IF value.tag = "Some" THEN [s EXCEPT ![field] = new(value.v)] ELSE s

NotEmpty(str) == str # ""

\* Variant of set that keeps the empty elements of a vector.
set_keeping_empty(a, s, field, value) ==
    IF InnerTy(a, field) = "String"
    THEN [s EXCEPT ![field] = new(Display(value))]
    ELSE IF InnerTy(a, field) = "Vec<String>"
    THEN [s EXCEPT ![field] = new(MapSeq(Display, value))]
    ELSE [s EXCEPT ![field] = new(value)]

\* pub fn set_<field>(mut self, value) -> Self, by the text of the inner type
set(a, s, field, value) ==
    IF InnerTy(a, field) = "String"
    THEN [s EXCEPT ![field] = new(Display(value))]
    ELSE IF InnerTy(a, field) = "Vec<String>"
    THEN [s EXCEPT ![field] = new(SelectSeq(MapSeq(Display, value), NotEmpty))]
    ELSE [s EXCEPT ![field] = new(value)]

\* Option::unwrap_or_default on an Option<String>
unwrap_or_default(opt) == IF opt.tag = "Some" THEN opt.v ELSE ""

\* the size class set_insert_id matches: "sm", "md", "lg", anything else is max
SizeClass(size) ==
    LET lower == to_lowercase(Display(size)) IN
    IF lower \in {"sm", "md", "lg"} THEN lower ELSE "max"

\* Variant of set_insert_id without the test of the current identifier.
set_insert_id_always(a, s, size, id) == [s EXCEPT !["id"] = new(id)]

\* Variant of set_insert_id with the test of the current identifier negated.
set_insert_id_when_present(a, s, size, id) ==
    IF unwrap_or_default(Getter(a, s, "id")) # ""
    THEN [s EXCEPT !["id"] = new(id)]
    ELSE s

\* pub fn set_insert_id<T: ToString>(mut self, size: T) -> Self; `id` is what
\* ids::sm(), md(), lg() or max() hands out when it is called
set_insert_id(a, s, size, id) ==
    IF unwrap_or_default(Getter(a, s, "id")) = ""
    THEN [s EXCEPT !["id"] = new(id)]
    ELSE s

\* pub fn clone_<field>(mut self, value: &Null<inner>) -> Self
clone(s, field, value) == [s EXCEPT ![field] = value]

\* Variant of clear that leaves the field null instead of undefined.
clear_to_null(s, field) == [s EXCEPT ![field] = null]

\* pub fn clear_<field>(mut self) -> Self
clear(s, field) == [s EXCEPT ![field] = undefined]

\* the fields clear_<field> is emitted for
all_cleable_fields(a) == {f \in FieldIdents(a) : IsNullType(a.fields[TypeOf(a, f)].ty)}

\* pub fn clear_all(mut self) -> Self: one guarded assignment per clearable field
clear_all(a, s) ==
    [f \in DOMAIN s |->
        IF f \in all_cleable_fields(a) /\ ~is_some(s[f]) THEN undefined ELSE s[f]]

(***************************************************************************)
(* The entities whose accessors are run, and what the caller hands in.     *)
(***************************************************************************)
\* a field takes all three generated setters only as a Null<..>
AccessFieldPool ==
    << [ident |-> "id",   ty |-> "Null<String>",      attrs |-> <<ColumnAttr("")>>],
       [ident |-> "name", ty |-> "Null<String>",      attrs |-> <<ColumnAttr("")>>],
       [ident |-> "tags", ty |-> "Null<Vec<String>>", attrs |-> <<>>],
       [ident |-> "age",  ty |-> "Null<i64>",         attrs |-> <<ColumnAttr("")>>] >>

\* the selections of one to MaxAccessFields fields of the pool, in its order;
\* the generated impl calls self.id(), so `id` is among them
AccessDecls ==
    { [ident  |-> "User",
       table  |-> [alias |-> None, rename |-> Some("users"), other |-> <<>>],
       fields |-> LET Keep(f) == \E i \in S : AccessFieldPool[i] = f
                  IN  SelectSeq(AccessFieldPool, Keep)] :
        S \in {T \in SUBSET (1..Len(AccessFieldPool)) :
                    1 \in T /\ Cardinality(T) \in 1..MaxAccessFields} }

\* values of an inner type
InnerValues(inner_ty) ==
    IF inner_ty = "String" THEN {"", "Ann"}
    ELSE IF inner_ty = "Vec<String>" THEN {<<>>, <<"a">>, <<"", "a">>}
    ELSE {"7", "-1"}

\* what set_<field> accepts: T: ToString, Vec<T: ToString>, or the inner type
SetterInputs(inner_ty) ==
    IF inner_ty = "String" THEN {text(""), text("Ann"), int(7), int(-1)}
    ELSE IF inner_ty = "Vec<String>"
    THEN {<<>>, <<text("a")>>, <<text(""), text("a")>>, <<int(7), text("")>>}
    ELSE InnerValues(inner_ty)

SizePool == {text("sm"), text("MD"), text("lg"), text("huge"), int(3)}

\* identifiers ids::sm(), ids::md(), ids::lg() and ids::max() can hand out
Ids(class) == {class \o "-1", class \o "-2"}

\* Self::default(): the caller constructs the instance
Default ==
    /\ pc = "idle"
    /\ self = <<>>
    /\ call = NoCall
    /\ self' = default(ast)
    /\ call' = [op |-> "default"]
    /\ UNCHANGED <<ast, gen, pc, execs, calls>>

\* self.<field>()
Get ==
    /\ pc = "idle"
    /\ self # <<>>
    /\ \E f \in FieldIdents(ast) :
          call' = [op |-> "get", field |-> f, out |-> Getter(ast, self, f), before |-> self]
    /\ UNCHANGED <<ast, gen, self, pc, execs, calls>>

\* self.set_<field>(value)
Set ==
    /\ pc = "idle"
    /\ self # <<>>
    /\ \E f \in FieldIdents(ast) : \E value \in SetterInputs(InnerTy(ast, f)) :
          /\ self' = set(ast, self, f, value)
          /\ call' = [op |-> "set", field |-> f, value |-> value, before |-> self]
    /\ UNCHANGED <<ast, gen, pc, execs, calls>>

\* self.set_opts_<field>(&value)
SetOpts ==
    /\ pc = "idle"
    /\ self # <<>>
    /\ \E f \in FieldIdents(ast) :
       \E value \in {None} \cup {Some(v) : v \in InnerValues(InnerTy(ast, f))} :
          /\ self' = set_opts(self, f, value)
          /\ call' = [op |-> "set_opts", field |-> f, value |-> value, before |-> self]
    /\ UNCHANGED <<ast, gen, pc, execs, calls>>

\* self.set_insert_id(size), emitted for an entity with an `id` field; `again`
\* tells that the call before it was a set_insert_id too
SetInsertId ==
    /\ pc = "idle"
    /\ self # <<>>
    /\ "id" \in FieldIdents(ast)
    /\ \E size \in SizePool : \E id \in Ids(SizeClass(size)) :
          /\ self' = set_insert_id(ast, self, size, id)
          /\ call' = [op |-> "set_insert_id", size |-> size, before |-> self,
                      again |-> call.op = "set_insert_id"]
    /\ UNCHANGED <<ast, gen, pc, execs, calls>>

\* self.clone_<field>(&value)
Clone ==
    /\ pc = "idle"
    /\ self # <<>>
    /\ \E f \in FieldIdents(ast) :
       \E value \in {undefined, null} \cup {new(v) : v \in InnerValues(InnerTy(ast, f))} :
          /\ self' = clone(self, f, value)
          /\ call' = [op |-> "clone", field |-> f, value |-> value, before |-> self]
    /\ UNCHANGED <<ast, gen, pc, execs, calls>>

\* self.clear_<field>()
Clear ==
    /\ pc = "idle"
    /\ self # <<>>
    /\ \E f \in all_cleable_fields(ast) :
          /\ self' = clear(self, f)
          /\ call' = [op |-> "clear", field |-> f, before |-> self]
    /\ UNCHANGED <<ast, gen, pc, execs, calls>>

\* self.clear_all()
ClearAll ==
    /\ pc = "idle"
    /\ self # <<>>
    /\ self' = clear_all(ast, self)
    /\ call' = [op |-> "clear_all", before |-> self]
    /\ UNCHANGED <<ast, gen, pc, execs, calls>>

InitAccess ==
    /\ ast \in AccessDecls
    /\ gen = NotGenerated
    /\ self = <<>>
    /\ pc = "declared"
    /\ call = NoCall
    /\ execs = 0
    /\ calls = 0

NextAccess ==
    \/ Derive
    \/ Default
    \/ Get
    \/ Set
    \/ SetOpts
    \/ SetInsertId
    \/ Clone
    \/ Clear
    \/ ClearAll
    \/ UpdateCall

SpecAccess == InitAccess /\ [][NextAccess]_vars

(***************************************************************************)
(* form_derive: the sanitizers of a form and sanitize().                   *)
(*                                                                         *)
(* A form declaration lists its fields with the value of                   *)
(* #[form(sanitize = "...")], if any; a form value maps each field to a    *)
(* Null<String> or a Null<Vec<String>>.                                    *)
(***************************************************************************)
\* str::trim_start: the leading white space is removed
RECURSIVE trim_start(_)
trim_start(s) ==
    IF s = "" THEN s
    ELSE IF Char(s, 1) \in WhiteSpace THEN trim_start(SubSeq(s, 2, Len(s)))
    ELSE IF Char(s, 1) \in Described THEN s
    ELSE Unspecified(s)

\* str::trim_end: the trailing white space is removed
RECURSIVE trim_end(_)
trim_end(s) ==
    IF s = "" THEN s
    ELSE IF Char(s, Len(s)) \in WhiteSpace THEN trim_end(SubSeq(s, 1, Len(s) - 1))
    ELSE IF Char(s, Len(s)) \in Described THEN s
    ELSE Unspecified(s)

RECURSIVE trim_end_matches(_, _)
trim_end_matches(s, c) ==
    IF Len(s) > 0 /\ Char(s, Len(s)) = c
    THEN trim_end_matches(SubSeq(s, 1, Len(s) - 1), c)
    ELSE s

\* str::trim
trim(s) == trim_end(trim_start(s))

\* Vec::dedup: of each run of equal consecutive items the first is kept
RECURSIVE dedup(_)
dedup(items) ==
    IF Len(items) <= 1 THEN items
    ELSE IF items[1] = items[2] THEN dedup(Tail(items))
    ELSE <<items[1]>> \o dedup(Tail(items))

lowercase(value) == to_lowercase(trim(value))

trim_slash(value) == trim(trim_end_matches(trim(value), "/"))

\* title_case::title_case(text, exceptions): every word separated by a blank
\* gets a capital first letter and small letters after it; a word of the
\* exceptions is left as written.
title_case(value, exceptions) ==
    LET words == split(value, " ")
        keep  == { split(exceptions, " ")[i] : i \in 1..Len(split(exceptions, " ")) }
    IN  join([i \in 1..Len(words) |->
                IF words[i] = "" \/ words[i] \in keep THEN words[i]
                ELSE to_uppercase(Char(words[i], 1))
                        \o to_lowercase(SubSeq(words[i], 2, Len(words[i])))],
             " ")

normalize_name(value) ==
    title_case(value, "Jr Sr I II III IV V VI VII VIII IX X XX XXX De Los DeLos")

\* the arms of the match that push a statement
SanitizerKinds == {"lowercase", "normalize_name", "trim", "trim_slash", "dedup"}

\* the statement pushed to `sanitizers` for one kind, applied to data.#field
Sanitizer(kind, field_value) ==
    IF field_value.tag # "Value" THEN field_value
    ELSE IF kind = "dedup"
         THEN IF field_value.v = <<>> THEN field_value ELSE new(dedup(field_value.v))
    ELSE IF kind = "normalize_name"
         THEN IF trim(field_value.v) = "" THEN field_value
              ELSE new(normalize_name(trim(field_value.v)))
    ELSE IF field_value.v = "" THEN field_value
    ELSE IF kind = "lowercase" THEN new(lowercase(field_value.v))
    ELSE IF kind = "trim" THEN new(trim(field_value.v))
    ELSE IF kind = "trim_slash" THEN new(trim_slash(field_value.v))
    ELSE field_value

HasSanitizer(f) == f.sanitize.tag = "Some" /\ f.sanitize.v \in SanitizerKinds

\* `sanitizers` after the loop over the fields
sanitizers(a) ==
    LET kept == SelectSeq(a.fields, HasSanitizer) IN
    [i \in 1..Len(kept) |-> [field |-> kept[i].ident, kind |-> kept[i].sanitize.v]]

FormGenerated(a) == [status |-> "ok", sanitizers |-> sanitizers(a)]

RECURSIVE ApplySanitizers(_, _)
ApplySanitizers(data, ss) ==
    IF ss = <<>> THEN data
    ELSE ApplySanitizers(
            [data EXCEPT ![Head(ss).field] = Sanitizer(Head(ss).kind, @)], Tail(ss))

\* pub fn sanitize(&self) -> Self
sanitize(g, data) == ApplySanitizers(data, g.sanitizers)

\* #[form(sanitize = ...)] of the text field: none, the four text kinds, and a
\* kind the match does not know; of the list field: none or dedup.
FormDecls ==
    { [ident  |-> "LinkForm",
       fields |-> << [ident |-> "url",  ty |-> "Null<String>",      sanitize |-> ks],
                     [ident |-> "tags", ty |-> "Null<Vec<String>>", sanitize |-> kl] >>] :
        ks \in { None, Some("lowercase"), Some("normalize_name"), Some("trim"),
                 Some("trim_slash"), Some("upper") },
        kl \in { None, Some("dedup") } }

TextValues == { "", " ", "Ab", " Ab ", "ann DE los", "a/", "a/ /", "a// ", "\tAb\n" }

ListValues == { <<>>, <<"a", "a">>, <<"a", "b", "a">>, <<"a", "a", "b", "b">> }

FormFieldValues(field) ==
    {undefined, null} \cup
    { new(v) : v \in IF field = "url" THEN TextValues ELSE ListValues }

InitForm ==
    /\ ast \in FormDecls
    /\ gen = NotGenerated
    /\ self = <<>>
    /\ pc = "declared"
    /\ call = NoCall
    /\ execs = 0
    /\ calls = 0

\* #[proc_macro_derive(Form)]: main() runs derive() on the form.
FormDerive ==
    /\ pc = "declared"
    /\ gen' = FormGenerated(ast)
    /\ pc' = "idle"
    /\ UNCHANGED <<ast, self, call, execs, calls>>

\* Self::default()
FormDefault ==
    /\ pc = "idle"
    /\ self = <<>>
    /\ self' = [f \in {"url", "tags"} |-> undefined]
    /\ call' = [op |-> "default"]
    /\ UNCHANGED <<ast, gen, pc, execs, calls>>

\* clone_<field>(&self, value)
FormClone ==
    /\ pc = "idle"
    /\ self # <<>>
    /\ \E field \in {"url", "tags"} :
          \E value \in FormFieldValues(field) :
             self' = [self EXCEPT ![field] = value]
    /\ call' = [op |-> "clone"]
    /\ UNCHANGED <<ast, gen, pc, execs, calls>>

\* sanitize(&self), the result taking the place of the receiver
Sanitize ==
    /\ pc = "idle"
    /\ self # <<>>
    /\ self' = sanitize(gen, self)
    /\ call' = [op |-> "sanitize", before |-> self, again |-> call.op = "sanitize"]
    /\ UNCHANGED <<ast, gen, pc, execs, calls>>

NextForm == FormDerive \/ FormDefault \/ FormClone \/ Sanitize

SpecForm == InitForm /\ [][NextForm]_vars

(***************************************************************************)
(* enums_derive: Display and From<String> of an enum.                      *)
(*                                                                         *)
(* A variant is declared with its identifier, its #[sqlx(...)] attributes  *)
(* in the order written, each the list of its arguments, and whether it    *)
(* carries #[default].                                                     *)
(***************************************************************************)
MaxVariants == 2

\* extract_rename_value(variant): the text of the first #[sqlx(...)] attribute
\* whose arguments parse as one Meta that is a name-value pair with a string
\* literal, whatever the name; else the identifier of the variant
extract_rename_value(variant) ==
    LET IsNameValue(attr) == /\ Len(attr) = 1
                             /\ attr[1].value.tag = "Some"
                             /\ attr[1].value.v.kind = "str"
        found == SelectSeq(variant.sqlx, IsNameValue)
    IN  IF found # <<>> THEN found[1][1].value.v.s ELSE variant.ident

IsDefaultVariant(variant) == variant.is_default

\* the variant carrying #[default], else the first one
default_variant(variants) ==
    LET found == SelectSeq(variants, IsDefaultVariant) IN
    IF found # <<>> THEN found[1] ELSE variants[1]

EnumGenerated(a) ==
    [status                |-> "ok",
     variant_ident         |-> [i \in 1..Len(a.variants) |-> a.variants[i].ident],
     variant_string        |-> [i \in 1..Len(a.variants) |->
                                   extract_rename_value(a.variants[i])],
     variant_lowered       |-> [i \in 1..Len(a.variants) |->
                                   to_lowercase(extract_rename_value(a.variants[i]))],
     default_variant_ident |-> default_variant(a.variants).ident]

\* the first arm of a match whose pattern is the scrutinee, 0 when none is
RECURSIVE FirstArm(_, _, _)
FirstArm(patterns, scrutinee, i) ==
    IF i > Len(patterns) THEN 0
    ELSE IF patterns[i] = scrutinee THEN i
    ELSE FirstArm(patterns, scrutinee, i + 1)

\* impl Display: fmt(&self, f) writes the string of the variant
fmt(g, variant) == g.variant_string[FirstArm(g.variant_ident, variant, 1)]

\* Variant of from that compares the value as it is written.
from_exact(g, value) ==
    LET arm == FirstArm(g.variant_string, value, 1) IN
    IF arm > 0 THEN g.variant_ident[arm] ELSE g.default_variant_ident

\* impl From<String>: from(value)
from(g, value) ==
    LET arm == FirstArm(g.variant_lowered, to_lowercase(value), 1) IN
    IF arm > 0 THEN g.variant_ident[arm] ELSE g.default_variant_ident

\* The variants declared.  An argument of a #[sqlx(...)] attribute is a name,
\* and a literal when the argument is a name-value pair; the attributes written
\* are: none, a rename, another name-value pair, a bare word, a number, two
\* arguments, and two attributes of which the first has two arguments.
VariantDecls ==
    LET Meta(name, value) == [name |-> name, value |-> value]
        two == <<Meta("rename", Some(text("x"))), Meta("other", Some(text("y")))>>
    IN  { [ident |-> v, sqlx |-> attrs, is_default |-> d] :
            v \in { "Active", "ACTIVE", "Off" },
            attrs \in { <<>>,
                        << <<Meta("rename", Some(text("on")))>> >>,
                        << <<Meta("rename", Some(text("ON")))>> >>,
                        << <<Meta("type_name", Some(text("oN")))>> >>,
                        << <<Meta("transparent", None)>> >>,
                        << <<Meta("rename", Some(int(1)))>> >>,
                        << two >>,
                        << two, <<Meta("rename", Some(text("on")))>> >> },
            d \in BOOLEAN }

\* Enums with pairwise distinct variant identifiers and at most one #[default].
EnumDecls ==
    { [ident |-> "Status", variants |-> vs] :
        vs \in UNION { { l \in [1..n -> VariantDecls] :
                           /\ \A i, j \in 1..n : i # j => l[i].ident # l[j].ident
                           /\ \A i, j \in 1..n : (l[i].is_default /\ l[j].is_default) => i = j } :
                       n \in 1..MaxVariants } }

\* texts handed to From<String> besides those Display wrote
EnumTexts == { "", "active", "On", "nope" }

InitEnum ==
    /\ ast \in EnumDecls
    /\ gen = NotGenerated
    /\ self = <<>>
    /\ pc = "declared"
    /\ call = NoCall
    /\ execs = 0
    /\ calls = 0

\* #[proc_macro_derive(Enums)]
derive_enum_iter ==
    /\ pc = "declared"
    /\ gen' = EnumGenerated(ast)
    /\ pc' = "idle"
    /\ UNCHANGED <<ast, self, call, execs, calls>>

\* to_string() of a variant
Fmt ==
    /\ pc = "idle"
    /\ \E i \in 1..Len(gen.variant_ident) :
          call' = [op |-> "fmt", of |-> gen.variant_ident[i],
                   text |-> fmt(gen, gen.variant_ident[i])]
    /\ UNCHANGED <<ast, gen, self, pc, execs, calls>>

\* Self::from(value), for a text of the pool or the text Display just wrote
From ==
    /\ pc = "idle"
    /\ \E value \in EnumTexts \cup (IF call.op = "fmt" THEN {call.text} ELSE {}) :
          LET back == call.op = "fmt" /\ value = call.text IN
          call' = [op |-> "from", value |-> value, result |-> from(gen, value),
                   back |-> back, of |-> IF back THEN call.of ELSE ""]
    /\ UNCHANGED <<ast, gen, self, pc, execs, calls>>

NextEnum == derive_enum_iter \/ Fmt \/ From

SpecEnum == InitEnum /\ [][NextEnum]_vars

(***************************************************************************)
(* Properties of generation (checked under SpecGen).                       *)
(***************************************************************************)
Descriptors == derive_all_fields(ast, column)

\* declaration positions of the attributed fields
AttPos == {i \in 1..Len(ast.fields) : Descriptors[i].is_attributed}

\* place of the attributed field declared at position i among the attributed fields
Rank(i) == Cardinality({j \in AttPos : j <= i})

ConstsNamed(m, name) == {i \in 1..Len(m.consts) : m.consts[i].name = name}

\* the value of the constant `name` of a naming module
Const(m, name) == m.consts[CHOOSE i \in ConstsNamed(m, name) : TRUE].value

FieldWithColumn(ident) == [ident |-> ident, ty |-> "Null<String>", attrs |-> <<ColumnAttr("")>>]

\* the scenario of the specification: User{id, name, email}, renamed "users"
IsUserScenario ==
    /\ ast.ident = "User"
    /\ ast.table.rename = Some("users")
    /\ ast.fields = <<FieldWithColumn("id"), FieldWithColumn("name"), FieldWithColumn("email")>>

\* C1: for an entity with table name T, the i-th attributed field F has
\* plain[i] = snake_case(F), tabled[i] = "T.plain[i]", renamed[i] = "T_plain[i]"
\* and aliased[i] = "T.plain[i] AS T_plain[i]"; for User{id, name, email}
\* renamed "users": plain.NAME = "name", tabled.NAME = "users.name",
\* renamed.NAME = "users_name".
C1_NamingTables ==
    gen.status = "ok" =>
        /\ \A m \in {gen.plain, gen.tabled, gen.renamed, gen.alias} :
              Len(m.consts) = Cardinality(AttPos)
        /\ \A i \in AttPos :
              LET T == gen.table_name
                  p == derive_snake_case(ast.fields[i].ident)
              IN  /\ gen.plain.consts[Rank(i)].value   = p
                  /\ gen.tabled.consts[Rank(i)].value  = T \o "." \o p
                  /\ gen.renamed.consts[Rank(i)].value = T \o "_" \o p
                  /\ gen.alias.consts[Rank(i)].value   = T \o "." \o p \o " AS " \o T \o "_" \o p
        /\ IsUserScenario =>
              /\ Const(gen.plain, "NAME")   = "name"
              /\ Const(gen.tabled, "NAME")  = "users.name"
              /\ Const(gen.renamed, "NAME") = "users_name"
              /\ Const(gen.alias, "NAME")   = "users.name AS users_name"

C1_Witness ==
    /\ gen.status = "ok"
    /\ IsUserScenario
    /\ Const(gen.tabled, "EMAIL") = "users.email"

\* the attributed field declared at position i, as the constant of module m
\* that is named after it
NamedAfter(m, i) == ConstsNamed(m, to_uppercase(derive_snake_case(ast.fields[i].ident)))

AliasSelect(A, i) ==
    LET p == derive_snake_case(ast.fields[i].ident) IN
    gen.table_name \o "." \o p \o " AS " \o A \o "_" \o p

\* C2: for every declared alias A other than the table name and every
\* attributed field F, the select expression of F in A's naming module is
\* "T.plain[F] AS A_plain[F]", and differs from F's base aliased expression.
C2_AliasSelectExpression ==
    gen.status = "ok" =>
        \A g \in 1..Len(gen.sub_alias) :
            LET m == gen.sub_alias[g] IN
            m.module # gen.table_name =>
                \A i \in AttPos :
                    /\ NamedAfter(m, i) # {}
                    /\ \A c \in NamedAfter(m, i) :
                          /\ m.consts[c].value = AliasSelect(m.module, i)
                          /\ m.consts[c].value # gen.alias.consts[Rank(i)].value

\* the attributed field declared at position i appears exactly once among the
\* constants of m, at its place in declaration order
OnceInOrder(m, i) ==
    /\ NamedAfter(m, i) = {Rank(i)}
    /\ Len(m.consts) = Cardinality(AttPos)

AssignsOf(assigns, field) == {n \in 1..Len(assigns) : assigns[n].field = field}

\* C3: after generation every attributed field appears exactly once in each
\* of the four global naming tables and exactly once in each declared alias
\* group (its constants and its parser's assignments), in declaration order,
\* and each constant of an alias group holds the expression of the field it
\* is named after.
C3_ExactlyOncePerGroup ==
    gen.status = "ok" =>
        \A i \in AttPos :
            /\ \A m \in {gen.plain, gen.tabled, gen.renamed, gen.alias} : OnceInOrder(m, i)
            /\ \A g \in 1..Len(gen.sub_alias) :
                  /\ OnceInOrder(gen.sub_alias[g], i)
                  /\ gen.sub_alias[g].consts[Rank(i)].value
                        = AliasSelect(gen.sub_alias[g].module, i)
            /\ \A g \in 1..Len(gen.sub_parsers) :
                  /\ AssignsOf(gen.sub_parsers[g].assigns, ast.fields[i].ident) = {Rank(i)}
                  /\ Len(gen.sub_parsers[g].assigns) = Cardinality(AttPos)

\* C4: the column key the base parser reads for a field is the output name of
\* the field's entry in the base aliased table (the RETURNING list of
\* update()), and the key an alias group's parser reads for a field is the
\* output name of the field's entry in that group's naming module.
C4_ParserKeysMatchSelect ==
    gen.status = "ok" =>
        /\ Len(gen.parse) = Cardinality(AttPos)
        /\ \A i \in AttPos :
              /\ gen.parse[Rank(i)].field = ast.fields[i].ident
              /\ gen.parse[Rank(i)].column = OutputName(gen.alias.consts[Rank(i)].value)
        /\ \A g \in 1..Len(gen.sub_parsers), h \in 1..Len(gen.sub_alias) :
              gen.sub_parsers[g].module = gen.sub_alias[h].module =>
                  \A i \in AttPos :
                      \A n \in AssignsOf(gen.sub_parsers[g].assigns, ast.fields[i].ident) :
                          \A c \in NamedAfter(gen.sub_alias[h], i) :
                              gen.sub_parsers[g].assigns[n].column
                                  = OutputName(gen.sub_alias[h].consts[c].value)

PositionsOf(seq, x) == {n \in 1..Len(seq) : seq[n] = x}

\* C6: the update field set is exactly the attributed fields other than the
\* identifier, in declaration order: `id` is never in it and no field that is
\* not attributed is in it.
C6_UpdateFieldSet ==
    gen.status = "ok" =>
        LET upd == gen.all_update_fields
            pos == {i \in AttPos : ast.fields[i].ident # "id"}
        IN  /\ PositionsOf(upd, "id") = {}
            /\ Len(upd) = Cardinality(pos)
            /\ \A i \in pos :
                  PositionsOf(upd, ast.fields[i].ident) = {Cardinality({j \in pos : j <= i})}
            /\ \A i \in 1..Len(ast.fields) :
                  i \notin AttPos => PositionsOf(upd, ast.fields[i].ident) = {}

C6_Witness ==
    /\ gen.status = "ok"
    /\ Len(gen.all_update_fields) = 1
    /\ Len(ast.fields) = 3
    /\ ast.fields[2].ident = "id" /\ 2 \in AttPos
    /\ 1 \notin AttPos /\ 3 \in AttPos

\* C7: for every non-identifier attributed field the assignment fragment of
\* update() is "{plain} = ${}", plain being the field's entry in the plain
\* naming table.
C7_UpdateFragmentUsesPlain ==
    gen.status = "ok" =>
        /\ Len(gen.all_update_columns) = Len(gen.all_update_fields)
        /\ \A n \in 1..Len(gen.all_update_columns) :
              \A i \in AttPos :
                  ast.fields[i].ident = gen.all_update_fields[n] =>
                      gen.all_update_columns[n] = gen.plain.consts[Rank(i)].value \o " = ${}"

\* C20: generation is deterministic: for a fixed declaration every run of the
\* derive produces the same output, the order in which the alias naming
\* modules, the alias parsers and the alias parser modules are emitted
\* included; the output of this run is the output of every other run.
C20_GenerationDeterministic ==
    gen.status = "ok" =>
        \A alias_order \in Orders(DeclKeys(ast)), parser_order \in Orders(DeclKeys(ast)) :
            Generated(ast, alias_order, parser_order) = gen

\* the field declared at position i carries an attribute named column
Marked(i) == \E j \in 1..Len(ast.fields[i].attrs) : ast.fields[i].attrs[j].path = column

\* its column attributes are of the form ColumnAttrs accepts: no arguments
WellFormed(i) ==
    \A j \in 1..Len(ast.fields[i].attrs) :
        ast.fields[i].attrs[j].path = column => ast.fields[i].attrs[j].args = ""

InParser(i) == AssignsOf(gen.parse, ast.fields[i].ident) # {}

InNaming(i) == NamedAfter(gen.plain, i) # {} /\ NamedAfter(gen.alias, i) # {}

InUpdate(i) == PositionsOf(gen.all_update_fields, ast.fields[i].ident) # {}

\* C21 as stated: a field participates in the naming tables, the row parser
\* and (other than `id`) the update field set if and only if it carries the
\* column attribute; derive_is_attributed_field is true exactly for such a
\* field and derive_all_fields reports that same flag for every field.
C21_ParticipatesIffMarked ==
    gen.status = "ok" =>
        \A i \in 1..Len(ast.fields) :
            /\ derive_is_attributed_field(ast, ast.fields[i].ident, column) = Marked(i)
            /\ Descriptors[i].is_attributed = Marked(i)
            /\ InParser(i) = Marked(i)
            /\ InNaming(i) = Marked(i)
            /\ ast.fields[i].ident # "id" => InUpdate(i) = Marked(i)

\* C21 as amended: derive_is_attributed_field is true exactly for a named
\* field carrying the attribute; derive_all_fields reports that flag for
\* every field whose attributes are extracted and false for a field whose
\* attribute extraction fails; a field participates in the naming tables, the
\* row parser and (other than `id`) the update field set if and only if it
\* carries the column attribute and its attributes are extracted.
C21_ParticipatesIffMarkedAndExtracted ==
    gen.status = "ok" =>
        \A i \in 1..Len(ast.fields) :
            /\ derive_is_attributed_field(ast, ast.fields[i].ident, column) = Marked(i)
            /\ Descriptors[i].is_attributed = (Marked(i) /\ WellFormed(i))
            /\ InParser(i) = (Marked(i) /\ WellFormed(i))
            /\ InNaming(i) = (Marked(i) /\ WellFormed(i))
            /\ ast.fields[i].ident # "id" => InUpdate(i) = (Marked(i) /\ WellFormed(i))
            /\ ast.fields[i].ident = "id" => ~InUpdate(i)

\* one field marked, one not, one with a column attribute that is rejected
C21_Witness ==
    /\ gen.status = "ok"
    /\ Len(ast.fields) = 3
    /\ Marked(1) /\ WellFormed(1) /\ InParser(1) /\ InUpdate(1)
    /\ ~Marked(2) /\ ~InParser(2)
    /\ Marked(3) /\ ~WellFormed(3) /\ ~InParser(3) /\ ~InUpdate(3)

\* C23: derive_all_fields returns exactly one descriptor per named field, in
\* declaration order, with the field's type, whether or not the field carries
\* the attribute; a field whose attribute extraction fails is returned with
\* the defaulted flag, and the failure does not abort generation nor drop or
\* reorder another field.
C23_OneDescriptorPerField ==
    /\ Len(Descriptors) = Len(ast.fields)
    /\ \A i \in 1..Len(ast.fields) :
          /\ Descriptors[i].field = ast.fields[i].ident
          /\ Descriptors[i].ty = ast.fields[i].ty
          /\ ~WellFormed(i) => ~Descriptors[i].is_attributed
    /\ gen.status = "ok" =>
          /\ Len(gen.parse) = Cardinality({i \in 1..Len(ast.fields) : Marked(i) /\ WellFormed(i)})
          /\ \A i, j \in 1..Len(ast.fields) :
                (i < j /\ InParser(i) /\ InParser(j)) =>
                    \A m \in AssignsOf(gen.parse, ast.fields[i].ident),
                       n \in AssignsOf(gen.parse, ast.fields[j].ident) : m < n
    /\ (pc = "aborted") => \E n \in 1..Len(aliases(ast)) : aliases(ast)[n] = ""

\* the rejected field stands between two accepted ones, which are generated
C23_Witness ==
    /\ gen.status = "ok"
    /\ Len(ast.fields) = 3
    /\ Marked(2) /\ ~WellFormed(2)
    /\ InParser(1) /\ InParser(3)
    /\ Len(Descriptors) = 3

\* C30: for every value of the table alias attribute, every name of the parsed
\* alias list is non-empty, so that no alias group with an empty name is
\* generated and generation is not aborted over one.
C30_AliasNamesNonEmpty ==
    pc # "declared" =>
        /\ \A n \in 1..Len(aliases(ast)) : aliases(ast)[n] # ""
        /\ gen.status = "ok" =>
              /\ \A n \in 1..Len(gen.aliases) : gen.aliases[n] # ""
              /\ \A g \in 1..Len(gen.sub_alias) : gen.sub_alias[g].module # ""
        /\ pc # "aborted"

(***************************************************************************)
(* Properties of the run time (checked under Spec).                        *)
(***************************************************************************)
IsSpace(c) == c = " " \/ c = "\n"

RECURSIVE TrimStart(_)
TrimStart(s) == IF s # "" /\ IsSpace(Char(s, 1)) THEN TrimStart(Tail(s)) ELSE s

RECURSIVE TrimEnd(_)
TrimEnd(s) ==
    IF s # "" /\ IsSpace(Char(s, Len(s))) THEN TrimEnd(SubSeq(s, 1, Len(s) - 1)) ELSE s

Trim(s) == TrimEnd(TrimStart(s))

\* declaration positions of the attributed fields other than the identifier
UpdPos == {i \in AttPos : ast.fields[i].ident # "id"}

\* the n-th of them in declaration order
UpdField(n) == ast.fields[CHOOSE i \in UpdPos : Cardinality({j \in UpdPos : j <= i}) = n].ident

\* what a bind of field f carries: the value when present, nothing otherwise
Bound(f) == IF self[f].tag = "Value" THEN Some(self[f].v) ELSE None

\* the reading under which is_none() holds for every field without a value
NoneIsNoValue == [state \in {"Undefined", "Null"} |-> TRUE]

\* the reading under which is_none() holds for a null field only
NoneIsNull == [state \in {"Undefined", "Null"} |-> state = "Null"]

\* the fields of the SET list of the call: the non-identifier attributed
\* fields, in declaration order, that passed the guard under the call's reading
InStatement ==
    LET Passes(f) == is_some(self[f]) \/ is_none(call.is_none, self[f])
    IN  SelectSeq([n \in 1..Cardinality(UpdPos) |-> UpdField(n)], Passes)

\* Whatever is_none() answers, update() emits UPDATE <table> SET g1 = $1, ...,
\* gm = $m WHERE id = $(m+1) RETURNING <aliased ALL> for the fields g1..gm that
\* passed the guard, and binds m+1 values: those of g1..gm in that order, then
\* the identifier, so the i-th bind belongs to the field whose fragment
\* carries $i.
UpdateBindsFollowFragments ==
    call.op = "update" =>
        LET m        == Len(InStatement)
            fragment == [n \in 1..m |-> InStatement[n] \o " = $" \o to_string(n)]
        IN  /\ Trim(call.sql) =
                  Trim("UPDATE " \o gen.table_name \o " SET " \o join(fragment, ", ")
                           \o " WHERE id = $" \o to_string(m + 1)
                           \o " RETURNING " \o gen.alias.ALL)
            /\ call.updates = fragment
            /\ Len(call.binds) = m + 1
            /\ \A n \in 1..m : call.binds[n] = Bound(InStatement[n])
            /\ call.binds[m + 1] = Bound("id")

\* When is_none() holds for every field without a value, every non-identifier
\* attributed field is in the SET list and in the binds, whatever its state.
UpdateKeepsEveryFieldWhenNoneIsNoValue ==
    (call.op = "update" /\ call.is_none = NoneIsNoValue) =>
        /\ Len(InStatement) = Cardinality(UpdPos)
        /\ Len(call.binds) = Cardinality(UpdPos) + 1

\* When is_none() holds for a null field only, a field left unset is in
\* neither: the scenario name = "Ann", email unset then binds the name and the
\* identifier, and the identifier carries $2.
UpdateSkipsUnsetWhenNoneIsNull ==
    /\ call.op = "update"
    /\ call.is_none = NoneIsNull
    /\ IsUserScenario
    /\ self["name"] = new("Ann") /\ self["email"] = undefined /\ self["id"] = new("Bob")
    /\ call.binds = <<Some("Ann"), Some("Bob")>>
    /\ Find(call.sql, "SET name = $1 WHERE id = $2") > 0

\* the same scenario when is_none() holds for every field without a value
UpdateBindsUnsetWhenNoneIsNoValue ==
    /\ call.op = "update"
    /\ call.is_none = NoneIsNoValue
    /\ IsUserScenario
    /\ self["name"] = new("Ann") /\ self["email"] = undefined /\ self["id"] = new("Bob")
    /\ call.binds = <<Some("Ann"), None, Some("Bob")>>
    /\ Find(call.sql, "SET name = $1, email = $2 WHERE id = $3") > 0

\* C8: every update() call issues exactly one statement execution and never
\* retries; when the execution fails the call returns a typed query failure
\* with no further execution.
C8_OneExecutionNoRetry ==
    /\ execs = calls
    /\ (call.op = "update" /\ pc = "awaiting") => call.result = None
    /\ (call.op = "update" /\ pc = "idle" /\ call.fetched.v.tag = "Err") =>
          /\ call.result.tag = "Some"
          /\ call.result.v.tag = "Err"
          /\ call.result.v.e.kind = "query"
          /\ call.result.v.e.cause = call.fetched.v.e

C8_Witness ==
    /\ call.op = "update"
    /\ pc = "idle"
    /\ call.fetched = Some(Err("Database"))
    /\ execs = 1 /\ calls = 1

\* the assignments of the parser that ran
ParserGroup == IF call.parser = "parse" THEN gen.table_name ELSE ModuleIdent(call.parser)

\* the column key under which a group selects the field declared at position i
KeyOf(group, i) == group \o "_" \o derive_snake_case(ast.fields[i].ident)

InnerOf(i) == derive_parse_inner_type(ast.fields[i].ty)

Extracts(row, group, i) ==
    KeyOf(group, i) \in DOMAIN row /\ row[KeyOf(group, i)].ty = InnerOf(i)

\* C9: row parsing, base and alias-scoped, never aborts on a per-column
\* failure: a field whose column is missing or of another type is unset, every
\* other attributed field holds its extracted value, and every field that is
\* not attributed keeps its default.
C9_ParseIsolatesColumnFailures ==
    call.op = "parse" =>
        /\ DOMAIN self = FieldIdents(ast)
        /\ \A i \in 1..Len(ast.fields) :
              LET f == ast.fields[i].ident IN
              IF i \notin AttPos THEN self[f] = DefaultValue(ast.fields[i].ty)
              ELSE IF Extracts(call.row, ParserGroup, i)
                   THEN self[f] = new(call.row[KeyOf(ParserGroup, i)].v)
                   ELSE self[f] = undefined

\* one column fails, another is extracted, a third field is not attributed
C9_Witness ==
    /\ call.op = "parse"
    /\ call.parser = "parse_owner"
    /\ Len(ast.fields) = 3
    /\ \E i, j, n \in 1..3 :
          /\ i \in AttPos /\ j \in AttPos /\ n \notin AttPos
          /\ ~Extracts(call.row, "owner", i) /\ self[ast.fields[i].ident] = undefined
          /\ Extracts(call.row, "owner", j) /\ self[ast.fields[j].ident] = new("Ann")
          /\ self[ast.fields[n].ident] = undefined

\* the row holds exactly the renamed columns, each with a value of the
\* field's inner type
IsRenamedRow(row) ==
    /\ DOMAIN row = {gen.renamed.consts[Rank(i)].value : i \in AttPos}
    /\ \A i \in AttPos : row[gen.renamed.consts[Rank(i)].value].ty = InnerOf(i)

\* C10: parsing a row populated with exactly the renamed columns and reading
\* each field through its getter returns the value stored for that field.
C10_ParseRoundTrip ==
    (call.op = "parse" /\ call.parser = "parse" /\ IsRenamedRow(call.row)) =>
        \A i \in AttPos :
            Getter(ast, self, ast.fields[i].ident)
                = Some(call.row[gen.renamed.consts[Rank(i)].value].v)

C10_Witness ==
    /\ call.op = "parse" /\ call.parser = "parse"
    /\ IsRenamedRow(call.row)
    /\ Cardinality(AttPos) = 3
    /\ Getter(ast, self, "name") = Some("Ann")
    /\ Getter(ast, self, "email") = Some("Bob")

\* the entity a parser of `group` is to build from `row`
ExpectedParse(row, group) ==
    [f \in FieldIdents(ast) |->
        LET i == CHOOSE j \in 1..Len(ast.fields) : ast.fields[j].ident = f IN
        IF i \in AttPos /\ Extracts(row, group, i) THEN new(row[KeyOf(group, i)].v)
        ELSE DefaultValue(ast.fields[i].ty)]

\* the all-unset default entity
AllUnset == [f \in FieldIdents(ast) |-> undefined]

NotFound == Err([kind |-> "to", cause |-> "No matching record(s) found in users table"])

\* C11: the result wrapper, base and every alias group, raises not-found only
\* when the fetch failed or the parsed entity equals the all-unset default;
\* when the fetch succeeded and the parsed entity differs from the default it
\* returns success carrying exactly that entity.
C11_NotFoundOnlyWhenEmpty ==
    call.op = "result" =>
        /\ call.result = NotFound =>
              \/ call.fetched.tag = "Err"
              \/ ExpectedParse(call.fetched.v, ParserGroup) = AllUnset
        /\ (call.fetched.tag = "Ok" /\ ExpectedParse(call.fetched.v, ParserGroup) # AllUnset) =>
              call.result = Ok(ExpectedParse(call.fetched.v, ParserGroup))

\* an alias group's wrapper returns the entity parsed from the alias columns
C11_Witness ==
    /\ call.op = "result"
    /\ call.parser = "parse_owner"
    /\ call.fetched.tag = "Ok"
    /\ "owner_name" \in DOMAIN call.fetched.v
    /\ call.result.tag = "Ok"
    /\ call.result.v["name"] = new("Ann")

\* C12 as stated: a failed fetch is mapped to the typed not-found failure, the
\* failure the wrapper returns for a structurally empty parse result.
C12_FetchErrorIsNotFound ==
    (call.op = "result" /\ call.fetched.tag = "Err") => call.result = NotFound

\* C12 as amended: a failed fetch is mapped to the typed query failure that
\* carries the fetch error, without parsing; it is another kind of failure
\* than the not-found failure returned for a structurally empty parse result.
C12_FetchErrorIsQueryFailure ==
    call.op = "result" =>
        /\ call.fetched.tag = "Err" =>
              /\ call.result = Err([kind |-> "query", cause |-> call.fetched.e])
              /\ call.result # NotFound
        /\ (call.fetched.tag = "Ok" /\ ExpectedParse(call.fetched.v, ParserGroup) = AllUnset) =>
              call.result = NotFound

C12_Witness ==
    /\ call.op = "result"
    /\ call.fetched = Err("RowNotFound")
    /\ call.result.tag = "Err"
    /\ call.result.e.kind = "query"

\* C13: the relational wrapper, base and every alias group, returns the unset
\* wrapper exactly when the parsed entity equals the schema's default and
\* otherwise a present wrapper holding exactly the parsed entity; it never
\* fails.
C13_RelationalPresentOrUnset ==
    call.op = "relational" =>
        LET parsed == ExpectedParse(call.row, ParserGroup) IN
        /\ call.out.tag \in {"Undefined", "Value"}
        /\ call.out.tag = "Undefined" <=> parsed = AllUnset
        /\ call.out.tag = "Value" => call.out.v = parsed

\* a row none of whose columns a field extracts gives the unset wrapper
C13_Witness ==
    /\ call.op = "relational"
    /\ call.parser = "parse"
    /\ DOMAIN call.row # {}
    /\ call.out = undefined

(***************************************************************************)
(* Properties of the accessors (checked under SpecAccess).                 *)
(***************************************************************************)
\* every field but f is as it was before the call
OthersUnchanged(f) == \A g \in FieldIdents(ast) \ {f} : self[g] = call.before[g]

GeneratedIds == UNION {Ids(class) : class \in {"sm", "md", "lg", "max"}}

\* C14 as stated: set_insert_id assigns an identifier only if the identifier
\* is absent: whenever the id field holds a present value, the call leaves the
\* id and the whole entity unchanged, for every size argument.
C14_PresentIdUnchanged ==
    (call.op = "set_insert_id" /\ call.before["id"].tag = "Value") => self = call.before

\* C14 as amended: whenever the id field holds a present value that is not the
\* empty text, the call leaves the id and the whole entity unchanged, for every
\* size argument; a present empty text is replaced like an absent identifier
\* by a generated one, every other field unchanged.
C14_NonEmptyIdUnchanged ==
    call.op = "set_insert_id" =>
        /\ (call.before["id"].tag = "Value" /\ call.before["id"].v # "") => self = call.before
        /\ call.before["id"] \in {undefined, null, new("")} =>
              /\ self["id"].tag = "Value"
              /\ self["id"].v \in GeneratedIds
              /\ OthersUnchanged("id")

C14_Witness ==
    /\ call.op = "set_insert_id"
    /\ call.before["id"] = new("Ann")
    /\ call.size = text("MD")
    /\ self = call.before
    /\ Len(ast.fields) = 2

\* C15: set_insert_id is idempotent: from every entity state and for every
\* pair of size arguments, the second of two calls in sequence leaves the
\* identifier the first call left, and assigns nothing.
C15_SetInsertIdIdempotent ==
    (call.op = "set_insert_id" /\ call.again) =>
        /\ self["id"] = call.before["id"]
        /\ self = call.before
        /\ self["id"].tag = "Value" /\ self["id"].v # ""

\* the first call generated a small identifier, the second asked for a large one
C15_Witness ==
    /\ call.op = "set_insert_id"
    /\ call.again
    /\ call.size = text("lg")
    /\ self["id"] = new("sm-1")

\* C16: set_opts_<field> handed None returns the entity unchanged in every
\* field; handed Some(v) it makes the field present holding v and leaves every
\* other field unchanged.
C16_SetOptsOnlyOnSome ==
    call.op = "set_opts" =>
        IF call.value = None THEN self = call.before
        ELSE /\ self[call.field] = new(call.value.v)
             /\ OthersUnchanged(call.field)

C16_Witness ==
    /\ call.op = "set_opts"
    /\ call.value = None
    /\ call.field = "name"
    /\ call.before["name"] = new("Ann")
    /\ self["name"] = new("Ann")

RECURSIVE WithoutEmpty(_)
WithoutEmpty(v) ==
    IF v = <<>> THEN <<>>
    ELSE IF Head(v) = "" THEN WithoutEmpty(Tail(v))
    ELSE <<Head(v)>> \o WithoutEmpty(Tail(v))

\* the value handed to set_<field>, converted to the inner type of the field
Converted(inner_ty, value) ==
    IF inner_ty = "String" THEN Display(value)
    ELSE IF inner_ty = "Vec<String>" THEN [n \in 1..Len(value) |-> Display(value[n])]
    ELSE value

\* C17 as stated: after set_<field>(v) the field is present and holds v
\* converted to the inner type, for String and Vec<String> fields too, and the
\* getter returns that value.
C17_SetStoresConverted ==
    call.op = "set" =>
        /\ self[call.field] = new(Converted(InnerTy(ast, call.field), call.value))
        /\ Getter(ast, self, call.field) = Some(Converted(InnerTy(ast, call.field), call.value))

\* C17 as amended: after set_<field>(v) the field is present and holds v
\* converted to the inner type, except that a Vec<String> field holds the
\* converted elements other than the empty texts, in their order; the getter
\* returns that value and every other field is unchanged.
C17_SetStoresConvertedNonEmpty ==
    call.op = "set" =>
        LET inner_ty == InnerTy(ast, call.field)
            stored   == IF inner_ty = "Vec<String>"
                        THEN WithoutEmpty(Converted(inner_ty, call.value))
                        ELSE Converted(inner_ty, call.value)
        IN  /\ self[call.field] = new(stored)
            /\ Getter(ast, self, call.field) = Some(stored)
            /\ OthersUnchanged(call.field)

\* an integer handed to the setter of a String field
C17_Witness ==
    /\ call.op = "set"
    /\ call.field = "name"
    /\ call.value = int(7)
    /\ Getter(ast, self, "name") = Some("7")

\* Default::default() of an inner type
InnerDefault(inner_ty) ==
    IF inner_ty = "String" THEN ""
    ELSE IF inner_ty = "Vec<String>" THEN <<>>
    ELSE "0"

\* C18 as stated: the getter returns the field's inner value, and the default
\* of the inner type when the wrapper is unset or absent.
C18_GetterDefaultsWhenUnset ==
    call.op = "get" =>
        /\ call.out.tag = "Some"
        /\ call.out.v = IF call.before[call.field].tag = "Value"
                        THEN call.before[call.field].v
                        ELSE InnerDefault(InnerTy(ast, call.field))

\* C18 as amended: the getter returns the field's inner value as a present
\* option when the wrapper holds one, and the absent option, not a default of
\* the inner type, when the wrapper is unset or null; it changes nothing.
C18_GetterOptionOfInner ==
    call.op = "get" =>
        /\ call.out = IF call.before[call.field].tag = "Value"
                      THEN Some(call.before[call.field].v)
                      ELSE None
        /\ self = call.before

C18_Witness ==
    /\ call.op = "get"
    /\ call.field = "name"
    /\ self["name"] = undefined
    /\ call.out = None
    /\ \E g \in FieldIdents(ast) : self[g].tag = "Value"

\* C19: after clear_<field>, for every clearable field and entity state, the
\* getter of the field yields the absent representation and the field equals
\* its value in the default entity, so an entity whose other fields are all at
\* their default reports is_empty() = true.
C19_ClearedReadsUnset ==
    call.op = "clear" =>
        /\ Getter(ast, self, call.field) = None
        /\ self[call.field] = undefined
        /\ (\A g \in FieldIdents(ast) \ {call.field} : call.before[g] = undefined)
              => is_empty(ast, self)

C19_Witness ==
    /\ call.op = "clear"
    /\ call.field = "tags"
    /\ call.before["tags"] = new(<<"a">>)
    /\ Len(ast.fields) = 2
    /\ is_empty(ast, self)

\* C27: after clear_all every clearable field, every field whose declared type
\* starts with Null<, is unset, from every entity state, those where such a
\* field holds a present value included.
C27_ClearAllUnsetsEveryField ==
    call.op = "clear_all" =>
        \A f \in FieldIdents(ast) :
            StartsWith(ast.fields[TypeOf(ast, f)].ty, "Null<") => self[f] = undefined

(***************************************************************************)
(* Properties of the table attribute and the field types (checked under    *)
(* SpecDecl).                                                              *)
(***************************************************************************)
TableAttrsExtracted == ast.table.other = <<>>

\* C22: the resolved table name is the explicit rename when a rename is
\* declared, and otherwise the snake_case entity name.
C22_TableNameIsRenameOrSnakeIdent ==
    (pc = "idle" /\ TableAttrsExtracted) =>
        gen.table_name = IF ast.table.rename.tag = "Some"
                         THEN ast.table.rename.v
                         ELSE derive_snake_case(ast.ident)

RenderedType(i) == derive_type_to_string(ast.fields[i].ty)

\* the rendered type has the form Wrapper<Inner>
IsWrapped(t) == Find(t, "<") > 1 /\ Len(t) >= Find(t, "<") + 2 /\ Char(t, Len(t)) = ">"

Unwrapped(t) == SubSeq(t, Find(t, "<") + 1, Len(t) - 1)

\* C24: for a declared field type that is a valid type expression,
\* derive_parse_inner_type returns Inner when the rendered type is
\* Wrapper<Inner> and the declared type otherwise; generation aborts only for
\* a type that is no valid type expression.
C24_ValidTypeNeverAborts ==
    (pc # "declared" /\ \A i \in 1..Len(ast.fields) : parse_str(RenderedType(i))) =>
        /\ pc = "idle"
        /\ \A n \in 1..Len(gen.parse) :
              \E i \in 1..Len(ast.fields) :
                 /\ ast.fields[i].ident = gen.parse[n].field
                 /\ gen.parse[n].inner_ty = IF IsWrapped(RenderedType(i))
                                            THEN Unwrapped(RenderedType(i))
                                            ELSE RenderedType(i)

\* C26: when the table attribute does not extract, generation proceeds as if
\* no rename and no alias were declared: the table name comes from the entity
\* name and no alias group is generated.
C26_FailedTableAttrsAreDefault ==
    (pc # "declared" /\ ~TableAttrsExtracted /\ gen.status = "ok") =>
        /\ gen.table_name = derive_snake_case(ast.ident)
        /\ gen.aliases = <<>>
        /\ gen.sub_alias = <<>>
        /\ gen.sub_parsers = <<>>

C26_Witness ==
    /\ pc = "idle"
    /\ ~TableAttrsExtracted
    /\ ast.table.rename = Some("UserAccounts")
    /\ ast.table.alias = Some("owner")
    /\ gen.table_name = "user"
    /\ gen.sub_parsers = <<>>

(***************************************************************************)
(* Properties of the forms (checked under SpecForm).                       *)
(***************************************************************************)
SanitizedFields == { gen.sanitizers[i].field : i \in 1..Len(gen.sanitizers) }

\* C28: sanitize() is idempotent for the kinds lowercase, trim, trim_slash
\* and dedup: sanitizing a sanitized form changes nothing, and a field
\* without a sanitizer or without a present value is unchanged.
C28_SanitizeIdempotent ==
    (/\ call.op = "sanitize"
     /\ \A i \in 1..Len(gen.sanitizers) :
           gen.sanitizers[i].kind \in {"lowercase", "trim", "trim_slash", "dedup"}) =>
        /\ call.again => self = call.before
        /\ \A f \in DOMAIN self :
              (f \notin SanitizedFields \/ call.before[f].tag # "Value") =>
                  self[f] = call.before[f]

(***************************************************************************)
(* Properties of the enums (checked under SpecEnum).                       *)
(***************************************************************************)
VariantNames == [i \in 1..Len(ast.variants) |-> extract_rename_value(ast.variants[i])]

DistinctNames ==
    \A i, j \in 1..Len(ast.variants) : i # j => VariantNames[i] # VariantNames[j]

DistinctLoweredNames ==
    \A i, j \in 1..Len(ast.variants) :
        i # j => to_lowercase(VariantNames[i]) # to_lowercase(VariantNames[j])

DeclaredDefault ==
    IF \E i \in 1..Len(ast.variants) : ast.variants[i].is_default
    THEN (CHOOSE v \in {ast.variants[i] : i \in 1..Len(ast.variants)} : v.is_default).ident
    ELSE ast.variants[1].ident

\* C29 as stated: with pairwise distinct variant names, the text Display
\* writes for a variant is converted back to that variant, and a text that is
\* the name of no variant is converted to the default variant.
C29_RoundTripForDistinctNames ==
    (call.op = "from" /\ DistinctNames) =>
        /\ call.back => call.result = call.of
        /\ (\A i \in 1..Len(ast.variants) :
                to_lowercase(VariantNames[i]) # to_lowercase(call.value))
             => call.result = DeclaredDefault

\* C29 amended: with variant names that are pairwise distinct when lowered,
\* the text Display writes for a variant is converted back to that variant;
\* a text is converted to the variant whose lowered name is the lowered text,
\* and to the default variant when there is none.
C29_RoundTripForDistinctLoweredNames ==
    (call.op = "from" /\ DistinctLoweredNames) =>
        /\ call.back => call.result = call.of
        /\ \A i \in 1..Len(ast.variants) :
              to_lowercase(VariantNames[i]) = to_lowercase(call.value)
                  => call.result = ast.variants[i].ident
        /\ (\A i \in 1..Len(ast.variants) :
                to_lowercase(VariantNames[i]) # to_lowercase(call.value))
             => call.result = DeclaredDefault

C29_Witness ==
    /\ call.op = "from"
    /\ call.back
    /\ DistinctLoweredNames
    /\ call.value = "ON"
    /\ call.result = "Off"
    /\ DeclaredDefault = "Active"
====
